---- MODULE Spec2Model ----
(***************************************************************************)
(* word-rarity-classifier: the adaptive batch-size controller, the         *)
(* response parser, the resilient batch-scoring engine of the LM client    *)
(* and the stratified batch loop of the rebalance step.                    *)
(*                                                                         *)
(* Each component has its own variables and its own specification; a       *)
(* specification parks the variables of the components it does not run.    *)
(***************************************************************************)
EXTENDS Integers, Sequences, FiniteSets, TLC

VARIABLES
    \* ---- BatchSizeAdapter (batch_size_adapter.py)
    initial_size,     \* self.initial_size
    min_size,         \* self.min_size
    window_size,      \* self.window_size
    current_size,     \* self.current_size
    outcomes,         \* self.outcomes: deque of booleans, oldest first
    trail,            \* observation only: the last outcomes with the state each one met
    success_ratio,    \* observation only: the argument of the last record_outcome, in
                      \* hundredths
    \* ---- LmStudioResponseParser.parse, one call (lm/response_parser.py)
    pBatch,           \* batch: the rows of the request
    pResults,         \* the results array of the response content
    pMode,            \* output_mode
    pForced,          \* forced_rarity_level (optional)
    pExpected,        \* expected_items (optional)
    pOut,             \* what the call gave: a ParsedBatch or the exception raised
    \* ---- LmStudioClient.score_batch_resilient (lm/client.py)
    capability_state, \* self.capability_state; lives as long as the client
    ctx,              \* the ScoringContext of the call in progress
    callBatch,        \* the batch the call in progress was given
    remainingRows,    \* `remaining` of _score_pending_batches: the rows not yet submitted
    stack,            \* the nodes of the recursion not yet resolved, innermost first
    callResults,      \* the ScoreResults gathered so far by the call, in order
    failedLog,        \* the lines the call has appended to the failed-words log
    runLog,           \* the end of the run log (ctx.run_log_path): the lines appended since
                      \* the node last entered sent its first request
    pc,               \* idle, enter, loop, returned or raised
    loop,             \* the locals of _try_score_batch while its retry loop runs
    env,              \* the endpoint behaviours the run draws from
    faults,           \* failing responses of the call so far
    maxRequestDepth,  \* observation only: the deepest node the call sent a request for
    raisedBy,         \* observation only: the retry loop that made the call raise
    exc,              \* observation only: the exception the attempt just made raised,
                      \* NoError when it parsed; forgotten when the next node is entered
    \* ---- run_step5 and _apply_transition (steps/step5_rebalance.py)
    options,              \* Step5Options
    runtime,              \* RebalanceRuntime
    transition_index,     \* where the loop of run_step5 stands in options.transitions
    remaining_by_source,  \* per source level, the shuffled words not yet drawn
    initial_source_counts,\* per source level, the size of its pool at the start
    counters,             \* eligible_count, processed, target_assigned, ... of the transition
    checkpoint,           \* the records of the checkpoint file
    summaries,            \* the TransitionSummary of each finished transition
    eligible_ids,         \* observation only: the words eligible when the transition started
    drawn,                \* observation only: the batches the transition has selected
    scoring_calls,        \* observation only: the calls of score_batch_resilient and what they gave
    rpc,                  \* run, loop, raised or written
    dataset,              \* the level of every word id of the input table
    resume_stats,         \* Step5ResumeStats: what the run restored from the checkpoint file
    \* ---- run_chain_rebalance (tools/chain_rebalance_target_dist.py)
    chain_resume,         \* ChainOptions.resume
    last_completed,       \* the local last_completed
    current_csv,          \* the local current_csv: 0 the input table, k the output of step k
    step_idx,             \* where the loop over the steps stands
    state_file,           \* the state file: Nothing, or last_completed_step and current_csv
    step_outputs,         \* the steps whose output table exists in runs_dir
    engine_runs,          \* observation only: the calls of run_step5 made by this process
    cpc,                  \* parked, start, loop, finished, aborted or killed
    \* ---- RunCsvRepository.merge_and_rewrite_atomic and CsvCodec.write_table_atomic
    fs,                   \* the files: per path Nothing, or the lines written to it
    baseline,             \* the RunBaseline handed to merge_and_rewrite_atomic
    in_memory_rows,       \* the rows handed to merge_and_rewrite_atomic
    unwritten,            \* the lines write_table has still to write
    job,                  \* observation only: the target as the call found it and the table it writes
    wpc,                  \* parked, idle, writing, written, raised or dead
    \* ---- acquire_output_lock and run_step2 (lock_manager.py, steps/step2_score.py)
    lock_holders,         \* per lock file, the open handles that hold its exclusive flock
    runs,                 \* per scoring run: its output table, where it stands, what it did
    \* ---- the functions without state (transitions.py, json_repair.py, ...)
    pure_call,            \* the call: the function and its arguments
    pure_out              \* whether the call is done, what it returned or that it raised

adapterVars == <<initial_size, min_size, window_size, current_size, outcomes, trail,
                 success_ratio>>
parserVars == <<pBatch, pResults, pMode, pForced, pExpected, pOut>>
clientVars == <<capability_state, ctx, callBatch, remainingRows, stack, callResults, failedLog, runLog, pc,
                loop, env, faults, maxRequestDepth, raisedBy, exc>>

rebalanceVars == <<options, runtime, transition_index, remaining_by_source,
                   initial_source_counts, counters, checkpoint, summaries, eligible_ids, drawn,
                   scoring_calls, rpc, dataset, resume_stats>>

chainVars == <<chain_resume, last_completed, current_csv, step_idx, state_file, step_outputs,
               engine_runs, cpc>>

repoVars == <<fs, baseline, in_memory_rows, unwritten, job, wpc>>

lockVars == <<lock_holders, runs>>

\* the calls of functions without state
pureVars == <<pure_call, pure_out>>

\* the tools that keep state in files
machineVars == <<chainVars, repoVars, lockVars>>

toolVars == <<chainVars, repoVars, lockVars, pureVars>>

coreVars == <<adapterVars, parserVars, clientVars, rebalanceVars>>

vars == <<adapterVars, parserVars, clientVars, rebalanceVars, toolVars>>

(***************************************************************************)
(* Generic helpers                                                         *)
(***************************************************************************)
Min2(a, b) == IF a <= b THEN a ELSE b
Max2(a, b) == IF a >= b THEN a ELSE b

Range(s) == {s[i] : i \in DOMAIN s}

\* F applied to the value of v, v evaluated once
Eager(v, F(_)) == CHOOSE r \in {F(x) : x \in {v}} : TRUE


(***************************************************************************)
(* Text.  A string is a sequence of characters; a character is an atom.    *)
(* The Romanian letters are named: a_breve, a_circ, i_circ, s_comma,       *)
(* t_comma, s_cedil, t_cedil and their capitals.                           *)
(***************************************************************************)
\* str.lower() on the characters of the model's alphabet
LowerChar(c) ==
    CASE c = "A" -> "a" [] c = "M" -> "m" [] c = "O" -> "o" [] c = "R" -> "r"
      [] c = "I" -> "i" [] c = "S" -> "s" [] c = "T" -> "t"
      [] c = "A_breve" -> "a_breve" [] c = "A_circ" -> "a_circ"
      [] c = "I_circ" -> "i_circ" [] c = "S_comma" -> "s_comma"
      [] c = "T_comma" -> "t_comma" [] c = "S_cedil" -> "s_cedil"
      [] c = "T_cedil" -> "t_cedil"
      [] OTHER -> c

Lower(s) == [i \in DOMAIN s |-> LowerChar(s[i])]

\* fuzzy_word_matcher.DIACRITICS_MAP
FoldChar(c) ==
    CASE c = "a_breve" -> "a" [] c = "A_breve" -> "A"
      [] c = "a_circ" -> "a" [] c = "A_circ" -> "A"
      [] c = "i_circ" -> "i" [] c = "I_circ" -> "I"
      [] c = "s_comma" -> "s" [] c = "S_comma" -> "S"
      [] c = "t_comma" -> "t" [] c = "T_comma" -> "T"
      [] c = "s_cedil" -> "s" [] c = "S_cedil" -> "S"
      [] c = "t_cedil" -> "t" [] c = "T_cedil" -> "T"
      [] OTHER -> c

\* fuzzy_word_matcher.normalize: translate(DIACRITICS_MAP).lower()
Normalize(s) == Lower([i \in DOMAIN s |-> FoldChar(s[i])])

\* str.isspace() of one character, for the blanks the texts hold
IsSpace(c) == c \in {" ", "\n", "\t", "\r"}
\* \w or \d of a Python str pattern: letters, digits, underscore
IsWordChar(c) == c \notin {" ", "!", "'", ".", ",", "-", "euro", "tm"}

RECURSIVE LStrip(_)
LStrip(s) == IF s # <<>> /\ IsSpace(Head(s)) THEN LStrip(Tail(s)) ELSE s
RECURSIVE RStrip(_)
RStrip(s) ==
    IF s # <<>> /\ IsSpace(s[Len(s)]) THEN RStrip(SubSeq(s, 1, Len(s) - 1)) ELSE s
\* str.strip()
Strip(s) == RStrip(LStrip(s))

DigitChars == {"0", "1", "2", "3", "4", "5", "6", "7", "8", "9"}
DigitVal(c) ==
    CASE c = "0" -> 0 [] c = "1" -> 1 [] c = "2" -> 2 [] c = "3" -> 3 [] c = "4" -> 4
      [] c = "5" -> 5 [] c = "6" -> 6 [] c = "7" -> 7 [] c = "8" -> 8 [] c = "9" -> 9

RECURSIVE DigitsValue(_)
DigitsValue(s) ==
    IF s = <<>> THEN 0 ELSE 10 * DigitsValue(SubSeq(s, 1, Len(s) - 1)) + DigitVal(s[Len(s)])

\* An optional value is <<>> (None) or <<v>>.
Nothing == <<>>
Some(v) == <<v>>

\* int(text): surrounding blanks and one sign are accepted; Nothing stands for
\* the ValueError.
ParseInt(text) ==
    LET t == Strip(text)
        signed == t # <<>> /\ Head(t) \in {"-", "+"}
        digits == IF signed THEN Tail(t) ELSE t
    IN IF digits = <<>> \/ \E i \in DOMAIN digits : digits[i] \notin DigitChars
       THEN Nothing
       ELSE Some(IF signed /\ Head(t) = "-" THEN 0 - DigitsValue(digits)
                 ELSE DigitsValue(digits))

\* fuzzy_word_matcher.levenshtein, its inner loop: the row `curr` for the
\* character ch_a, grown from <<i>> over the row before. Place j of a row
\* here is place j - 1 of the list.
RECURSIVE LevenshteinRow(_, _, _, _)
LevenshteinRow(prev, ch_a, b, curr) ==
    IF Len(curr) > Len(b) THEN curr
    ELSE LET j == Len(curr)
             cost == IF ch_a = b[j] THEN 0 ELSE 1
         IN LevenshteinRow(prev, ch_a, b,
                           Append(curr, Min2(Min2(curr[j] + 1, prev[j + 1] + 1), prev[j] + cost)))

\* its outer loop from the character i of a on: the last entry of the last row
RECURSIVE LevenshteinRows(_, _, _, _)
LevenshteinRows(a, b, i, prev) ==
    IF i > Len(a) THEN prev[Len(prev)]
    ELSE LevenshteinRows(a, b, i + 1, LevenshteinRow(prev, a[i], b, <<i>>))

\* fuzzy_word_matcher.levenshtein
Levenshtein(a, b) ==
    IF a = b THEN 0
    ELSE IF a = <<>> THEN Len(b)
    ELSE IF b = <<>> THEN Len(a)
    ELSE LevenshteinRows(a, b, 1, [j \in 1..(Len(b) + 1) |-> j - 1])

MAX_EDIT_DISTANCE == 2

Abs(n) == IF n < 0 THEN 0 - n ELSE n

\* fuzzy_word_matcher.matches
\* FuzzyMatches asking for equal normalized forms.
FuzzyMatchesNormalizedOnly(expected, actual) == Normalize(expected) = Normalize(actual)

\* fuzzy_word_matcher.matches
FuzzyMatches(expected, actual) ==
    IF expected = actual THEN TRUE
    ELSE LET ne == Normalize(expected)
             na == Normalize(actual)
         IN IF ne = na THEN TRUE
            ELSE IF Abs(Len(ne) - Len(na)) > MAX_EDIT_DISTANCE THEN FALSE
            ELSE Levenshtein(ne, na) <= MAX_EDIT_DISTANCE

\* str.replace of the three-character mojibake apostrophe by "'"
RECURSIVE ReplaceMojibake(_)
ReplaceMojibake(s) ==
    IF s = <<>> THEN <<>>
    ELSE IF Len(s) >= 3 /\ s[1] = "a_circ" /\ s[2] = "euro" /\ s[3] = "tm"
         THEN <<"'">> \o ReplaceMojibake(SubSeq(s, 4, Len(s)))
    ELSE <<Head(s)>> \o ReplaceMojibake(Tail(s))

RECURSIVE LStripPunct(_)
LStripPunct(s) == IF s # <<>> /\ ~IsWordChar(Head(s)) THEN LStripPunct(Tail(s)) ELSE s
RECURSIVE RStripPunct(_)
RStripPunct(s) ==
    IF s # <<>> /\ ~IsWordChar(s[Len(s)]) THEN RStripPunct(SubSeq(s, 1, Len(s) - 1)) ELSE s

\* response_parser._normalize_selection_word
NormalizeSelectionWord(value) ==
    IF Strip(value) = <<>> THEN <<>>
    ELSE RStripPunct(LStripPunct(ReplaceMojibake(Strip(Lower(value)))))

(***************************************************************************)
(* JSON values of a model response, after json.loads                       *)
(***************************************************************************)
JInt(n) == [t |-> "int", v |-> n]
JStr(chars) == [t |-> "str", v |-> chars]
JNull == [t |-> "null", v |-> 0]
\* a float, a list or another value that is no int, str or dict
JOther == [t |-> "other", v |-> 0]
\* a dict; a key that is absent reads as None, as with dict.get
JDict(local_id, word_id, word, type, rarity_level) ==
    [t |-> "dict",
     v |-> [local_id |-> local_id, word_id |-> word_id, word |-> word,
            type |-> type, rarity_level |-> rarity_level]]

RECURSIVE NatToChars(_)
NatToChars(n) ==
    LET d == CHOOSE c \in DigitChars : DigitVal(c) = n % 10
    IN IF n < 10 THEN <<d>> ELSE NatToChars(n \div 10) \o <<d>>
\* str(n) of an int
IntToChars(n) == IF n < 0 THEN <<"-">> \o NatToChars(0 - n) ELSE NatToChars(n)

\* response_parser._to_int
ToInt(value) ==
    IF value.t = "int" THEN Some(value.v)
    ELSE IF value.t = "str" THEN ParseInt(value.v)
    ELSE Nothing

\* response_parser._to_str_or_none (str(value).strip() or None)
ToStrOrNone(value) ==
    IF value.t = "null" THEN Nothing
    ELSE LET text == IF value.t = "str" THEN value.v
                     ELSE IF value.t = "int" THEN IntToChars(value.v)
                     ELSE <<"?">>
             stripped == Strip(text)
         IN IF stripped = <<>> THEN Nothing ELSE Some(stripped)

(***************************************************************************)
(* Response parser, full-classification mode (response_parser.py)          *)
(***************************************************************************)
RarityLevels == 1..5

ScoreOf(row, level) ==
    [word_id |-> row.word_id, word |-> row.word, type |-> row.type, rarity_level |-> level]

ParsedOk(scores, unresolved) == [kind |-> "ok", scores |-> scores, unresolved |-> unresolved]
\* an exception raised by parse: its class and what its text says
ParseError(err, nodes) == [kind |-> "error", error |-> err, nodes |-> nodes]

\* {r.word_id: r for r in batch}: a later row of the same id replaces an earlier one
BatchById(batch) ==
    [id \in {batch[i].word_id : i \in DOMAIN batch} |->
        batch[CHOOSE i \in DOMAIN batch :
                /\ batch[i].word_id = id
                /\ \A j \in DOMAIN batch : batch[j].word_id = id => j <= i]]

\* the key order of that dict: the order in which the ids first appear in the batch
RECURSIVE OrderedIds(_)
OrderedIds(batch) ==
    IF batch = <<>> THEN <<>>
    ELSE LET front == OrderedIds(SubSeq(batch, 1, Len(batch) - 1))
             id == batch[Len(batch)].word_id
         IN IF id \in Range(front) THEN front ELSE Append(front, id)

DictPop(d, key) == [k \in DOMAIN d \ {key} |-> d[k]]

\* pending_by_word_type: the (word, type) keys in insertion order, each with its
\* list of rows
KeyIndex(q, word, type) ==
    {i \in DOMAIN q : q[i].word = word /\ q[i].type = type}

RECURSIVE BuildQueues(_)
BuildQueues(batch) ==
    IF batch = <<>> THEN <<>>
    ELSE LET q == BuildQueues(SubSeq(batch, 1, Len(batch) - 1))
             row == batch[Len(batch)]
             at == KeyIndex(q, row.word, row.type)
         IN IF at = {}
            THEN Append(q, [word |-> row.word, type |-> row.type, rows |-> <<row>>])
            ELSE [i \in DOMAIN q |->
                    IF i \in at THEN [q[i] EXCEPT !.rows = Append(@, row)] ELSE q[i]]

\* [x for x in queue if x.word_id != row.word_id]
RECURSIVE SelectRows(_, _)
SelectRows(rows, dropId) ==
    IF rows = <<>> THEN <<>>
    ELSE IF Head(rows).word_id = dropId THEN SelectRows(Tail(rows), dropId)
    ELSE <<Head(rows)>> \o SelectRows(Tail(rows), dropId)

RECURSIVE DropEmptyKeys(_)
DropEmptyKeys(q) ==
    IF q = <<>> THEN <<>>
    ELSE IF Head(q).rows = <<>> THEN DropEmptyKeys(Tail(q))
    ELSE <<Head(q)>> \o DropEmptyKeys(Tail(q))

\* _match_candidate, id branch: the row leaves the list of its (word, type) key
QueuesWithoutRow(q, row) ==
    DropEmptyKeys([i \in DOMAIN q |->
        IF q[i].word = row.word /\ q[i].type = row.type
        THEN [q[i] EXCEPT !.rows = SelectRows(@, row.word_id)]
        ELSE q[i]])

\* queue.pop(0) on the list at index k, the key dropped when its list empties
QueuesPopFirst(q, k) ==
    DropEmptyKeys([i \in DOMAIN q |->
        IF i = k THEN [q[i] EXCEPT !.rows = Tail(@)] ELSE q[i]])

\* _parse_score_candidate: Nothing, or the candidate
ParseScoreCandidate(node) ==
    IF node.t # "dict" THEN Nothing
    ELSE LET rarity == ToInt(node.v.rarity_level)
         IN IF rarity = Nothing \/ rarity[1] \notin RarityLevels THEN Nothing
            ELSE Some([word_id |-> ToInt(node.v.word_id),
                       word |-> ToStrOrNone(node.v.word),
                       type |-> ToStrOrNone(node.v.type),
                       rarity_level |-> rarity[1]])

MatchResult(row, byId, queues) == [row |-> row, byId |-> byId, queues |-> queues]

\* Mutant of MatchCandidate's id branch: the matched row stays pending.
MatchByIdKeepsRow(cand, byId, queues) ==
    MatchResult(Some(byId[cand.word_id[1]]), byId, queues)

\* _match_candidate, lines 278-286
MatchById(cand, byId, queues) ==
    LET row == byId[cand.word_id[1]]
    IN MatchResult(Some(row), DictPop(byId, row.word_id), QueuesWithoutRow(queues, row))

\* _match_candidate: exact id, then exact (word, type), then fuzzy word within
\* the same type; the matched row leaves both pending structures
MatchCandidate(cand, byId, queues) ==
    IF cand.word_id # Nothing /\ cand.word_id[1] \in DOMAIN byId
    THEN MatchById(cand, byId, queues)
    ELSE IF cand.word = Nothing \/ cand.type = Nothing
    THEN MatchResult(Nothing, byId, queues)
    ELSE LET exact == KeyIndex(queues, cand.word[1], cand.type[1])
             fuzzy == {i \in DOMAIN queues :
                          /\ queues[i].type = cand.type[1]
                          /\ queues[i].rows # <<>>
                          /\ FuzzyMatches(queues[i].word, cand.word[1])}
             k == IF exact # {} THEN CHOOSE i \in exact : TRUE
                  ELSE CHOOSE i \in fuzzy : \A j \in fuzzy : i <= j
         IN IF exact = {} /\ fuzzy = {}
            THEN MatchResult(Nothing, byId, queues)
            ELSE LET row == Head(queues[k].rows)
                 IN MatchResult(Some(row),
                                IF row.word_id \in DOMAIN byId
                                THEN DictPop(byId, row.word_id) ELSE byId,
                                QueuesPopFirst(queues, k))

\* one pass of the loop of _parse_results_lenient: the pending structures and
\* the scores after the node
LenientStep(node, at) ==
    LET cand == ParseScoreCandidate(node)
    IN IF cand = Nothing THEN at
       ELSE Eager(MatchCandidate(cand[1], at.byId, at.queues),
                  LAMBDA m :
                    IF m.row = Nothing THEN at
                    ELSE [byId |-> m.byId, queues |-> m.queues,
                          scored |-> Append(at.scored,
                                            ScoreOf(m.row[1], cand[1].rarity_level))])

\* the loop of _parse_results_lenient over the result nodes
RECURSIVE LenientLoop(_, _)
LenientLoop(results, at) ==
    IF results = <<>> THEN at
    ELSE Eager(LenientStep(Head(results), at),
               LAMBDA next : LenientLoop(Tail(results), next))

\* sorted(rows, key=word_id) of rows with pairwise distinct ids
SortedById(rows) ==
    [k \in 1..Cardinality(rows) |->
        CHOOSE r \in rows : Cardinality({o \in rows : o.word_id < r.word_id}) = k - 1]

\* Mutant of NoValidResults: an unmatched response is returned, not raised.
NoValidResultsIgnored(scored, unresolved, batch) == FALSE

\* _parse_results_lenient, line 247: nothing scored and every row unresolved
NoValidResults(scored, unresolved, batch) ==
    scored = <<>> /\ Len(unresolved) = Len(batch)

\* _parse_results_lenient
ParseResultsLenient(batch, results) ==
    IF batch = <<>> THEN ParsedOk(<<>>, <<>>)
    ELSE Eager(LenientLoop(results, [byId |-> BatchById(batch),
                                     queues |-> BuildQueues(batch),
                                     scored |-> <<>>]),
               LAMBDA done :
                 Eager({done.byId[id] : id \in DOMAIN done.byId},
                       LAMBDA pending :
                         Eager(SortedById(pending),
                               LAMBDA unresolved :
                                 IF NoValidResults(done.scored, unresolved, batch)
                                 THEN ParseError("no_valid_results", Len(results))
                                 ELSE ParsedOk(done.scored, unresolved))))

(***************************************************************************)
(* Response parser, selection mode (response_parser.py)                    *)
(***************************************************************************)
\* the SelectionCandidate of one result node, or Nothing when the node gives
\* neither an id nor a word (_parse_selected_word_ids, lines 88-109)
SelectionCandidateOf(node) ==
    LET id == IF node.t = "int" THEN Some(node.v)
              ELSE IF node.t = "str" THEN ParseInt(node.v)
              ELSE IF node.t = "dict"
                   THEN IF ToInt(node.v.local_id) # Nothing THEN ToInt(node.v.local_id)
                        ELSE ToInt(node.v.word_id)
              ELSE Nothing
        word == IF node.t = "dict" THEN ToStrOrNone(node.v.word) ELSE Nothing
    IN IF id = Nothing /\ word = Nothing THEN Nothing
       ELSE Some([returned_id |-> id, word |-> word])

RECURSIVE RawSelections(_)
RawSelections(results) ==
    IF results = <<>> THEN <<>>
    ELSE LET c == SelectionCandidateOf(Head(results))
         IN (IF c = Nothing THEN <<>> ELSE c) \o RawSelections(Tail(results))

\* _coerce_selections_to_word_ids, step 1: strict local ids.  The result says
\* whether the loop returned at the expected count.
RECURSIVE StrictLocalIds(_, _, _, _)
StrictLocalIds(raw, batch, expected, selected) ==
    IF raw = <<>> THEN [selected |-> selected, returned |-> FALSE]
    ELSE IF Head(raw).returned_id = Nothing
    THEN StrictLocalIds(Tail(raw), batch, expected, selected)
    ELSE LET local == Head(raw).returned_id[1]
             wid == batch[local].word_id
             sel == IF local \in DOMAIN batch /\ wid \notin Range(selected)
                    THEN Append(selected, wid) ELSE selected
         IN IF Len(sel) = expected THEN [selected |-> sel, returned |-> TRUE]
            ELSE StrictLocalIds(Tail(raw), batch, expected, sel)

\* the first row of the remaining ones whose word equals the echoed word,
\* lower-cased or normalized
WordMatch(word, remaining, byId) ==
    LET raw_word == Strip(word)
        exact_key == Lower(raw_word)
        norm_key == NormalizeSelectionWord(raw_word)
        hits == {i \in DOMAIN remaining :
                    \/ Lower(byId[remaining[i]].word) = exact_key
                    \/ /\ norm_key # <<>>
                       /\ NormalizeSelectionWord(byId[remaining[i]].word) = norm_key}
    IN IF hits = {} THEN Nothing
       ELSE Some(remaining[CHOOSE i \in hits : \A j \in hits : i <= j])

RECURSIVE WithoutId(_, _)
WithoutId(ids, id) ==
    IF ids = <<>> THEN <<>>
    ELSE IF Head(ids) = id THEN WithoutId(Tail(ids), id)
    ELSE <<Head(ids)>> \o WithoutId(Tail(ids), id)

RECURSIVE WithoutIds(_, _)
WithoutIds(ids, dropped) ==
    IF ids = <<>> THEN <<>>
    ELSE IF Head(ids) \in dropped THEN WithoutIds(Tail(ids), dropped)
    ELSE <<Head(ids)>> \o WithoutIds(Tail(ids), dropped)

\* step 2: fallback by word matching against the rows not yet selected
RECURSIVE WordFallback(_, _, _, _, _, _)
WordFallback(raw, batch, byId, expected, selected, remaining) ==
    IF raw = <<>> THEN selected
    ELSE IF Len(selected) = expected THEN selected
    ELSE LET c == Head(raw)
             hit == IF c.word = Nothing THEN Nothing
                    ELSE WordMatch(c.word[1], remaining, byId)
         IN IF \/ (c.returned_id # Nothing /\ c.returned_id[1] \in DOMAIN batch)
               \/ c.word = Nothing
               \/ hit = Nothing
            THEN WordFallback(Tail(raw), batch, byId, expected, selected, remaining)
            ELSE WordFallback(Tail(raw), batch, byId, expected,
                              IF hit[1] \in Range(selected) THEN selected
                              ELSE Append(selected, hit[1]),
                              IF hit[1] \in Range(selected) THEN remaining
                              ELSE WithoutId(remaining, hit[1]))

RECURSIVE DistinctIds(_, _)
DistinctIds(raw, seen) ==
    IF raw = <<>> THEN <<>>
    ELSE IF Head(raw).returned_id # Nothing /\ Head(raw).returned_id[1] \notin seen
    THEN <<Head(raw).returned_id[1]>>
            \o DistinctIds(Tail(raw), seen \cup {Head(raw).returned_id[1]})
    ELSE DistinctIds(Tail(raw), seen)

RECURSIVE PositionalIndices(_, _, _, _, _)
PositionalIndices(ids, base, size, expected, indices) ==
    IF ids = <<>> THEN indices
    ELSE LET idx == Head(ids) - base
             next == IF 0 <= idx /\ idx < size /\ idx \notin Range(indices)
                     THEN Append(indices, idx) ELSE indices
         IN IF Len(next) = expected THEN next
            ELSE PositionalIndices(Tail(ids), base, size, expected, next)

\* step 3: positional fallback, the id stream read as 0-based or 1-based
PositionalFallback(raw, batch, expected) ==
    LET distinct_ids == DistinctIds(raw, {})
        base == IF 0 \in Range(distinct_ids) THEN 0 ELSE 1
        indices == PositionalIndices(distinct_ids, base, Len(batch), expected, <<>>)
    IN IF distinct_ids = <<>> THEN <<>>
       ELSE [i \in DOMAIN indices |-> batch[indices[i] + 1].word_id]

\* CoerceSelectionsToWordIds that reads the id stream by position whenever
\* local ids and words did not reach the expected count.
CoerceSelectionsPositionalOnShort(raw, batch, expected) ==
    IF expected <= 0 \/ batch = <<>> THEN <<>>
    ELSE LET strict == StrictLocalIds(raw, batch, expected, <<>>)
             byId == BatchById(batch)
             remaining == WithoutIds(OrderedIds(batch), Range(strict.selected))
             worded == IF Len(strict.selected) < expected
                       THEN WordFallback(raw, batch, byId, expected, strict.selected, remaining)
                       ELSE strict.selected
         IN IF strict.returned THEN strict.selected
            ELSE IF Len(strict.selected) < expected /\ Len(worded) = expected THEN worded
            ELSE PositionalFallback(raw, batch, expected)

\* _coerce_selections_to_word_ids
CoerceSelectionsToWordIds(raw, batch, expected) ==
    IF expected <= 0 \/ batch = <<>> THEN <<>>
    ELSE LET strict == StrictLocalIds(raw, batch, expected, <<>>)
             byId == BatchById(batch)
             remaining == WithoutIds(OrderedIds(batch), Range(strict.selected))
             worded == IF Len(strict.selected) < expected
                       THEN WordFallback(raw, batch, byId, expected, strict.selected, remaining)
                       ELSE strict.selected
         IN IF strict.returned THEN strict.selected
            ELSE IF Len(strict.selected) < expected /\ Len(worded) = expected THEN worded
            ELSE IF worded # <<>> THEN worded
            ELSE PositionalFallback(raw, batch, expected)

\* Mutant of SelectionCountMismatch: whatever was selected is accepted.
SelectionCountAccepted(selected, expected) == FALSE

\* _parse_selected_word_ids, line 118
SelectionCountMismatch(selected, expected) == Len(selected) # expected

\* _parse_selected_word_ids; forced_rarity_level and expected_items are optional
ParseSelectedWordIds(batch, results, forced_rarity_level, expected_items) ==
    IF forced_rarity_level = Nothing \/ forced_rarity_level[1] \notin RarityLevels
    THEN ParseError("forced_rarity_level_required", Len(results))
    ELSE IF expected_items = Nothing \/ expected_items[1] <= 0
    THEN ParseError("expected_items_required", Len(results))
    ELSE IF batch = <<>> THEN ParsedOk(<<>>, <<>>)
    ELSE LET expected == expected_items[1]
             byId == BatchById(batch)
         IN Eager(CoerceSelectionsToWordIds(RawSelections(results), batch, expected),
                  LAMBDA selected :
                    IF SelectionCountMismatch(selected, expected)
                    THEN ParseError("selection_count_mismatch", Len(results))
                    ELSE ParsedOk([i \in DOMAIN selected |->
                                      ScoreOf(byId[selected[i]], forced_rarity_level[1])],
                                  <<>>))

\* parse, from the results array on (lines 57-64)
ParseResults(batch, results, output_mode, forced_rarity_level, expected_items) ==
    IF output_mode = "selected_word_ids"
    THEN ParseSelectedWordIds(batch, results, forced_rarity_level, expected_items)
    ELSE ParseResultsLenient(batch, results)

(***************************************************************************)
(* BatchSizeAdapter                                                        *)
(***************************************************************************)
\* Bounds of the adapter model.
MaxInitialSize == 5
MaxWindowSize == 5
\* The claim under test speaks of five consecutive outcomes.
TrailLen == 5
\* Success ratios handed to record_outcome, in hundredths; they straddle the
\* clamp to [0, 1] and the 0.9 success threshold.
RatioSamples == {-10, 0, 49, 89, 90, 100, 150}

\* BatchSizeAdapter.__init__: the three ValueError guards.
ValidConstruction(init, mn, win) == init >= mn /\ mn >= 1 /\ win >= 1

\* record_outcome: normalized = max(0.0, min(1.0, ratio)); success = normalized >= 0.9
OutcomeSuccess(ratioPct) == Max2(0, Min2(100, ratioPct)) >= 90

\* TrimWindow dropping nothing.
TrimWindowKeepsAll(w, win) == w

\* the while loop of record_outcome: popleft until at most window_size remain
TrimWindow(w, win) == IF Len(w) > win THEN SubSeq(w, Len(w) - win + 1, Len(w)) ELSE w

SuccessCount(w) == Cardinality({i \in DOMAIN w : w[i]})

\* success_rate() < 0.5 and success_rate() > 0.9 over count/len (1.0 when empty)
RateBelowHalf(w) == w # <<>> /\ 2 * SuccessCount(w) < Len(w)
RateAboveNine(w) == w = <<>> \/ 10 * SuccessCount(w) > 9 * Len(w)

\* Mutant of ShrunkSize: the floor at min_size is forgotten.
ShrunkSizeNoFloor(size, mn) == (size * 2) \div 3
\* Mutant of GrownSize: the size is never grown.
GrownSizeStuck(size, init) == size

\* _adjust_size, the rate < 0.5 branch and the rate > 0.9 branch
ShrunkSize(size, mn) == Max2(mn, (size * 2) \div 3)
GrownSize(size, init) == Min2(init, (size * 3) \div 2)

AdjustSize(size, w, init, mn) ==
    IF RateBelowHalf(w) THEN ShrunkSize(size, mn)
    ELSE IF RateAboveNine(w) THEN GrownSize(size, init)
    ELSE size

AdapterInit ==
    /\ initial_size \in 1..MaxInitialSize
    /\ min_size \in 1..MaxInitialSize
    /\ window_size \in 1..MaxWindowSize
    /\ ValidConstruction(initial_size, min_size, window_size)
    /\ current_size = initial_size
    /\ outcomes = <<>>
    /\ trail = <<>>
    /\ success_ratio = 100

AdapterParked ==
    /\ initial_size = 0 /\ min_size = 0 /\ window_size = 0
    /\ current_size = 0 /\ outcomes = <<>> /\ trail = <<>>
    /\ success_ratio = 100

\* One entry per outcome: what it was and the state it met.
TrailEntry(ok) ==
    [ok |-> ok, size |-> current_size,
     allOk |-> \A i \in DOMAIN outcomes : outcomes[i],
     allBad |-> \A i \in DOMAIN outcomes : ~outcomes[i]]

PushTrail(t, e) ==
    IF Len(t) >= TrailLen THEN Append(Tail(t), e) ELSE Append(t, e)

RecordOutcome ==
    \E ratio \in RatioSamples :
        LET ok == OutcomeSuccess(ratio)
            w == TrimWindow(Append(outcomes, ok), window_size)
        IN /\ success_ratio' = ratio
           /\ outcomes' = w
           /\ current_size' = AdjustSize(current_size, w, initial_size, min_size)
           /\ trail' = PushTrail(trail, TrailEntry(ok))
           /\ UNCHANGED <<initial_size, min_size, window_size>>
           /\ UNCHANGED <<parserVars, clientVars, rebalanceVars, toolVars>>

(***************************************************************************)
(* One call of the parser on sample batches and sample responses           *)
(***************************************************************************)
\* Bounds of the parser model: rows per batch, nodes per results array.
MaxParseBatch == 2
MaxResults == 2

W_om == <<"o", "m">>
W_casa_breve == <<"c", "a", "s", "a_breve">>
W_casa == <<"c", "a", "s", "a">>
W_paine == <<"p", "a", "i", "n", "e">>
T_N == <<"N">>
T_V == <<"V">>

SampleRows ==
    << [word_id |-> 101, word |-> W_om, type |-> T_N],
       [word_id |-> 102, word |-> W_casa_breve, type |-> T_N],
       [word_id |-> 103, word |-> W_om, type |-> T_V] >>

\* result nodes of a full-classification response
ScoreNodes ==
    << JDict(JNull, JInt(101), JNull, JNull, JInt(2)),
       JDict(JNull, JInt(102), JStr(W_casa_breve), JStr(T_N), JInt(5)),
       JDict(JNull, JStr(<<"1", "0", "3">>), JNull, JNull, JStr(<<"3">>)),
       JDict(JNull, JNull, JStr(<<" ", "o", "m">>), JStr(T_N), JInt(1)),
       JDict(JNull, JInt(999), JStr(W_casa), JStr(T_N), JInt(4)),
       JDict(JNull, JInt(101), JStr(W_om), JStr(T_N), JInt(9)),
       JDict(JNull, JNull, JStr(W_paine), JStr(T_N), JInt(3)),
       JInt(1) >>

\* result nodes of a selection response
SelectionNodes ==
    << JInt(1), JInt(2), JInt(0), JInt(999),
       JStr(<<"2">>),
       JDict(JInt(1), JNull, JNull, JNull, JNull),
       JDict(JNull, JInt(2), JNull, JNull, JNull),
       JDict(JNull, JNull, JStr(<<"O", "M", "!">>), JNull, JNull),
       JStr(W_om) >>

\* the index sequences of at most n entries into `samples`
RECURSIVE IndexSeqs(_, _)
IndexSeqs(samples, n) ==
    IF n = 0 THEN {<<>>} ELSE IndexSeqs(samples, n - 1) \cup [1..n -> DOMAIN samples]

\* those that name no sample twice: a batch holds each row once
InjectiveSeqs(samples, n) ==
    {q \in IndexSeqs(samples, n) : \A a, b \in DOMAIN q : a # b => q[a] # q[b]}

Pick(samples, idx) == [i \in DOMAIN idx |-> samples[idx[i]]]

ParserInit ==
    /\ \E idx \in InjectiveSeqs(SampleRows, MaxParseBatch) : pBatch = Pick(SampleRows, idx)
    /\ \/ /\ pMode = "score_results"
          /\ \E idx \in IndexSeqs(ScoreNodes, MaxResults) : pResults = Pick(ScoreNodes, idx)
          /\ pForced = Nothing
          /\ pExpected = Nothing
       \/ /\ pMode = "selected_word_ids"
          /\ \E idx \in IndexSeqs(SelectionNodes, MaxResults) :
                pResults = Pick(SelectionNodes, idx)
          /\ pForced \in {Nothing, Some(1), Some(6)}
          /\ pExpected \in {Nothing} \cup {Some(n) : n \in 0..(MaxParseBatch + 1)}
    /\ pOut = [kind |-> "pending"]

ParserParked ==
    /\ pBatch = <<>> /\ pResults = <<>> /\ pMode = "score_results"
    /\ pForced = Nothing /\ pExpected = Nothing /\ pOut = [kind |-> "parked"]

\* LmStudioResponseParser.parse on a response whose content holds a results array
ParseCall ==
    /\ pOut.kind = "pending"
    /\ pOut' = ParseResults(pBatch, pResults, pMode, pForced, pExpected)
    /\ UNCHANGED <<pBatch, pResults, pMode, pForced, pExpected>>
    /\ UNCHANGED <<adapterVars, clientVars, rebalanceVars, toolVars>>

(***************************************************************************)
(* LmStudioClient: resilient batch scoring (lm/client.py)                  *)
(***************************************************************************)
MAX_RECURSION_DEPTH == 10
SELECTION_REPAIR_MAX_RETRIES == 1

\* Bounds of the client model: rows of a batch, retries of a context, and
\* failing responses within a call on a long batch.
MaxBatch == 3
MaxRetries == 2
MaxDeepFaults == 1
\* A batch long enough for a node of two rows to arrive at the depth limit
\* when every request scores one row.
DeepBatch == MAX_RECURSION_DEPTH + 2

\* DEFAULT_REBALANCE_BATCH_SIZE (constants.py): the batch size of a rebalance
\* run that names none
DEFAULT_REBALANCE_BATCH_SIZE == 600

\* The shortest batch whose bisection still has a node to split one step from
\* the depth limit: the longer half of a node is half of it rounded up, so
\* this batch leaves a node of two rows at depth MAX_RECURSION_DEPTH - 1.
HalvedToDepthLimit == 2^(MAX_RECURSION_DEPTH - 1) + 1

\* round(num / den) of Python 3 for num >= 0, den > 0: ties go to the even side
RoundHalfEven(num, den) ==
    LET q == num \div den
        r == num % den
    IN IF 2 * r < den THEN q
       ELSE IF 2 * r > den THEN q + 1
       ELSE IF q % 2 = 0 THEN q ELSE q + 1

\* ComputeSplitExpected rounding down.
ComputeSplitExpectedFloor(total_expected, left_size, total_size) ==
    IF total_expected <= 0 \/ left_size <= 0 \/ total_size <= 0 THEN 0
    ELSE IF left_size >= total_size THEN total_expected
    ELSE (total_expected * left_size) \div total_size

\* _compute_split_expected
ComputeSplitExpected(total_expected, left_size, total_size) ==
    IF total_expected <= 0 \/ left_size <= 0 \/ total_size <= 0 THEN 0
    ELSE IF left_size >= total_size THEN total_expected
    ELSE RoundHalfEven(total_expected * left_size, total_size)

\* _should_disable_response_format_after_partial_schema_parse, with
\* JSON_SCHEMA_UNRESOLVED_DISABLE_RATIO = 0.2: int(size * 0.2 + 0.9999)
ShouldDisableAfterPartialSchemaParse(batch_size, unresolved_count) ==
    IF batch_size <= 0 \/ unresolved_count <= 0 THEN FALSE
    ELSE unresolved_count >= Max2(1, (2000 * batch_size + 9999) \div 10000)

\* What an exception of one attempt is, and what its text makes the
\* classifiers of client.py say.  origin: transport (requests raised), http
\* (a non-2xx status) or content (parse raised on a 2xx response).
ErrorOf(kind) ==
    [kind |-> kind,
     origin |-> IF kind = "timeout" THEN "transport"
                ELSE IF kind \in {"http_unsupported_format", "http_schema_required",
                                  "http_reasoning_rejected", "http_unsupported_both",
                                  "http_model_crash"}
                THEN "http" ELSE "content",
     \* _is_connectivity_failure: the exception class, or "timed out" in its text;
     \* the text of a content failure quotes an excerpt of the content
     connectivity |-> kind \in {"timeout", "malformed_timed_out"},
     \* _is_unsupported_response_format
     unsupported_format |-> kind \in {"http_unsupported_format", "http_schema_required",
                                      "http_unsupported_both"},
     \* _should_switch_to_json_schema
     schema_required |-> kind = "http_schema_required",
     \* _is_unsupported_reasoning_controls
     unsupported_reasoning |-> kind \in {"http_reasoning_rejected", "http_unsupported_both"},
     \* _is_model_crash
     model_crash |-> kind = "http_model_crash",
     \* _is_empty_parsed_results
     empty_parsed |-> kind = "no_valid_results_0",
     \* _is_selection_count_mismatch
     count_mismatch |-> kind = "selection_count_mismatch"]

NoError == [kind |-> "none", origin |-> "none", connectivity |-> FALSE,
            unsupported_format |-> FALSE, schema_required |-> FALSE,
            unsupported_reasoning |-> FALSE, model_crash |-> FALSE,
            empty_parsed |-> FALSE, count_mismatch |-> FALSE]

\* the exception parse raised, as the client sees it
ErrorOfParse(out) ==
    IF out.error = "no_valid_results"
    THEN ErrorOf(IF out.nodes = 0 THEN "no_valid_results_0" ELSE "no_valid_results_n")
    ELSE ErrorOf(out.error)

\* failures that are no answer of the model: transport, HTTP status, content
EndpointFailures ==
    {"timeout", "http_unsupported_format", "http_schema_required",
     "http_reasoning_rejected", "http_unsupported_both", "http_model_crash", "malformed",
     "malformed_timed_out"}

\* a request sent to the endpoint never throws these away: the rows of a batch
ClientRow(i) == [word_id |-> 100 + i, word |-> <<"w">> \o NatToChars(i), type |-> T_N]
ClientBatch(n) == [i \in 1..n |-> ClientRow(i)]

\* the results array of an answer that names the rows at the positions in
\* `picked`, in ascending order: objects with word_id and rarity_level in
\* full mode, bare local ids in selection mode
RECURSIVE AnswerNodes(_, _, _, _)
AnswerNodes(batch, picked, output_mode, from) ==
    IF from > Len(batch) THEN <<>>
    ELSE (IF from \in picked
          THEN <<IF output_mode = "selected_word_ids" THEN JInt(from)
                 ELSE JDict(JNull, JInt(batch[from].word_id), JNull, JNull, JInt(3))>>
          ELSE <<>>) \o AnswerNodes(batch, picked, output_mode, from + 1)

BatchAttempt(scores, unresolved, last_error, connectivity_failure) ==
    [scores |-> scores, unresolved |-> unresolved, last_error |-> last_error,
     connectivity_failure |-> connectivity_failure]

\* ScoringContext, the fields the engine reads
Context(max_retries, allow_partial_results, output_mode, expected_json_items, forced_rarity_level, flavor, has_reasoning_controls) ==
    [max_retries |-> max_retries, allow_partial_results |-> allow_partial_results,
     output_mode |-> output_mode, expected_json_items |-> expected_json_items,
     forced_rarity_level |-> forced_rarity_level, flavor |-> flavor,
     has_reasoning_controls |-> has_reasoning_controls]

\* CapabilityState
Capability(response_format_mode, reasoning_controls_supported) ==
    [response_format_mode |-> response_format_mode,
     reasoning_controls_supported |-> reasoning_controls_supported]

\* one activation of _score_batch_resilient_internal: its batch, the expected
\* count of its context (selection mode) and its depth
Frame(batch, expected, depth) == [batch |-> batch, expected |-> expected, depth |-> depth]

\* _log_failed_word
FailedLine(row, error) == [word_id |-> row.word_id, error |-> error]
LogFailedWords(log, batch, error) ==
    log \o [i \in DOMAIN batch |-> FailedLine(batch[i], error)]

IdleLoop ==
    [attempt |-> 0, last_error |-> NoError, saw_only_connectivity_failures |-> TRUE,
     response_format_mode |-> "none", include_reasoning_controls |-> FALSE,
     repair |-> FALSE, genuine |-> TRUE]

NoRaise == [raised |-> FALSE, genuine |-> FALSE, attempts |-> 0, cause |-> "none"]

\* _response_format_mode_for
ResponseFormatModeFor(cap, flavor) ==
    IF flavor # "openai_compat" THEN "none" ELSE cap.response_format_mode

\* _should_include_reasoning_controls
ShouldIncludeReasoningControls(cap, c) ==
    IF c.flavor # "openai_compat" THEN FALSE
    ELSE IF ~c.has_reasoning_controls THEN FALSE
    ELSE cap.reasoning_controls_supported

\* _try_score_batch, lines 211-223: the locals before the first attempt
LoopStart(cap, c, repair) ==
    [attempt |-> 0, last_error |-> NoError, saw_only_connectivity_failures |-> TRUE,
     response_format_mode |-> ResponseFormatModeFor(cap, c.flavor),
     include_reasoning_controls |-> ShouldIncludeReasoningControls(cap, c),
     repair |-> repair, genuine |-> TRUE]

\* _try_score_batch, lines 347-353: the retry loop ran out
LoopExhausted(lp, batch) ==
    BatchAttempt(<<>>, batch, lp.last_error, lp.saw_only_connectivity_failures)

\* what one step leaves behind
Outcome(st, res, log, p, lp, rb) ==
    [stack |-> st, callResults |-> res, failedLog |-> log, pc |-> p, loop |-> lp,
     raisedBy |-> rb]

\* SplitOrFail resolving the right half first.
SplitOrFailRightFirst(c, st, res, log) ==
    LET node == Head(st)
        batch == node.batch
        split_idx == Len(batch) \div 2
        left_batch == SubSeq(batch, 1, split_idx)
        right_batch == SubSeq(batch, split_idx + 1, Len(batch))
    IN IF Len(batch) = 1
       THEN Outcome(Tail(st), res,
                    LogFailedWords(log, batch, "batch_failed_after_retries"),
                    "enter", IdleLoop, NoRaise)
       ELSE Outcome(<<Frame(right_batch, node.expected, node.depth + 1),
                      Frame(left_batch, node.expected, node.depth + 1)>> \o Tail(st),
                    res, log, "enter", IdleLoop, NoRaise)

\* _score_batch_resilient_internal, lines 186-208: a single word is logged as
\* failed, a longer batch is bisected and both halves are resolved left first
SplitOrFail(c, st, res, log) ==
    LET node == Head(st)
        batch == node.batch
        split_idx == Len(batch) \div 2
        left_batch == SubSeq(batch, 1, split_idx)
        right_batch == SubSeq(batch, split_idx + 1, Len(batch))
        selection == c.output_mode = "selected_word_ids"
        left_expected ==
            IF selection
            THEN Some(ComputeSplitExpected(node.expected[1], Len(left_batch), Len(batch)))
            ELSE node.expected
        right_expected ==
            IF selection THEN Some(node.expected[1] - left_expected[1]) ELSE node.expected
    IN IF Len(batch) = 1
       THEN Outcome(Tail(st), res,
                    LogFailedWords(log, batch, "batch_failed_after_retries"),
                    "enter", IdleLoop, NoRaise)
       ELSE Outcome(<<Frame(left_batch, left_expected, node.depth + 1),
                      Frame(right_batch, right_expected, node.depth + 1)>> \o Tail(st),
                    res, log, "enter", IdleLoop, NoRaise)

\* ResolveRepair taking whatever the repair request gave for an answer.
ResolveRepairUnchecked(c, st, res, log, repaired) ==
    Outcome(Tail(st), res \o repaired.scores, log, "enter", IdleLoop, NoRaise)

\* _try_selection_repair_before_split, lines 368-377, then lines 183-208
ResolveRepair(c, st, res, log, repaired) ==
    IF \/ repaired.connectivity_failure
       \/ repaired.unresolved # <<>>
       \/ Len(repaired.scores) # Head(st).expected[1]
    THEN SplitOrFail(c, st, res, log)
    ELSE Outcome(Tail(st), res \o repaired.scores, log, "enter", IdleLoop, NoRaise)

\* _try_selection_repair_before_split, lines 356-368
BeginRepair(cap, c, st, res, log) ==
    LET node == Head(st)
        lp == LoopStart(cap, c, TRUE)
    IN IF \/ node.expected = Nothing
          \/ node.expected[1] <= 0
          \/ node.expected[1] >= Len(node.batch)
       THEN SplitOrFail(c, st, res, log)
       ELSE IF SELECTION_REPAIR_MAX_RETRIES <= 0
       THEN ResolveRepair(c, st, res, log, LoopExhausted(lp, node.batch))
       ELSE Outcome(st, res, log, "loop", lp, NoRaise)

\* _score_batch_resilient_internal, line 167
FatalAttempt(direct) == direct.connectivity_failure

\* Mutant of ResolvePartial: the unresolved remainder is dropped.
ResolvePartialDropsRest(c, st, res, log, direct) ==
    Outcome(Tail(st), res \o direct.scores, log, "enter", IdleLoop, NoRaise)

\* _score_batch_resilient_internal, lines 170-176
ResolvePartial(c, st, res, log, direct) ==
    IF c.allow_partial_results \/ direct.unresolved = <<>>
    THEN Outcome(Tail(st), res \o direct.scores, log, "enter", IdleLoop, NoRaise)
    ELSE Outcome(<<Frame(direct.unresolved, Head(st).expected, Head(st).depth + 1)>>
                    \o Tail(st),
                 res \o direct.scores, log, "enter", IdleLoop, NoRaise)

\* _score_batch_resilient_internal, lines 166-208, once _try_score_batch is back
ResolveDirect(cap, c, st, res, log, lp, direct) ==
    IF FatalAttempt(direct)
    THEN Outcome(<<>>, res, log, "raised", IdleLoop,
                 [raised |-> TRUE, genuine |-> lp.genuine, attempts |-> lp.attempt,
                  cause |-> lp.last_error.kind])
    ELSE IF direct.scores # <<>>
    THEN ResolvePartial(c, st, res, log, direct)
    ELSE IF c.output_mode = "selected_word_ids" /\ direct.last_error.count_mismatch
    THEN BeginRepair(cap, c, st, res, log)
    ELSE SplitOrFail(c, st, res, log)

Resolve(cap, c, st, res, log, lp, attempt) ==
    IF lp.repair THEN ResolveRepair(c, st, res, log, attempt)
    ELSE ResolveDirect(cap, c, st, res, log, lp, attempt)

\* _score_batch_resilient_internal, line 166: _try_score_batch is entered
BeginDirect(cap, c, st, res, log) ==
    LET lp == LoopStart(cap, c, FALSE)
    IN IF c.max_retries <= 0
       THEN ResolveDirect(cap, c, st, res, log, lp, LoopExhausted(lp, Head(st).batch))
       ELSE Outcome(st, res, log, "loop", lp, NoRaise)

\* Mutant of DepthExceeded: the limit is tested one level too late.
DepthExceededLate(depth) == depth > MAX_RECURSION_DEPTH

\* _score_batch_resilient_internal, line 139
DepthExceeded(depth) == depth >= MAX_RECURSION_DEPTH

\* _score_batch_resilient_internal, lines 139-166: from the entry of a node to
\* its first request, or to its end when it needs none
EnterOutcome(cap, c, st, res, log) ==
    LET node == Head(st)
        all_rows == [i \in DOMAIN node.batch |->
                        ScoreOf(node.batch[i], c.forced_rarity_level[1])]
    IN IF DepthExceeded(node.depth)
       THEN Outcome(Tail(st), res,
                    LogFailedWords(log, node.batch, "max_recursion_depth_exceeded"),
                    "enter", IdleLoop, NoRaise)
       ELSE IF c.output_mode = "selected_word_ids"
       THEN IF node.expected = Nothing \/ c.forced_rarity_level = Nothing
            THEN Outcome(<<>>, res, log, "raised", IdleLoop,
                         [raised |-> TRUE, genuine |-> FALSE, attempts |-> 0,
                          cause |-> "value_error"])
            ELSE IF node.expected[1] <= 0
            THEN Outcome(Tail(st), res, log, "enter", IdleLoop, NoRaise)
            ELSE IF node.expected[1] >= Len(node.batch)
            THEN Outcome(Tail(st), res \o all_rows, log, "enter", IdleLoop, NoRaise)
            ELSE BeginDirect(cap, c, st, res, log)
       ELSE BeginDirect(cap, c, st, res, log)

\* _mark_response_format_json_schema
MarkResponseFormatJsonSchema(cap) ==
    IF cap.response_format_mode # "json_schema"
    THEN [cap EXCEPT !.response_format_mode = "json_schema"] ELSE cap

\* _mark_response_format_disabled
MarkResponseFormatDisabled(cap) ==
    IF cap.response_format_mode # "none"
    THEN [cap EXCEPT !.response_format_mode = "none"] ELSE cap

\* _mark_reasoning_controls_unsupported
MarkReasoningControlsUnsupported(cap) ==
    IF cap.reasoning_controls_supported
    THEN [cap EXCEPT !.reasoning_controls_supported = FALSE] ELSE cap

\* Mutant of ShouldSwitchSchema: the switch is made whatever the mode in use.
ShouldSwitchSchemaAnyMode(lp, err) == err.schema_required

\* _try_score_batch, lines 294-297
ShouldSwitchSchema(lp, err) ==
    lp.response_format_mode = "json_object" /\ err.schema_required

\* _try_score_batch, lines 290-293 and 301-304
ShouldDisableFormat(lp, err) ==
    \/ lp.response_format_mode # "none" /\ err.unsupported_format
    \/ lp.response_format_mode = "json_schema" /\ err.empty_parsed

\* UnsupportedReasoning whether or not the request carried the controls.
UnsupportedReasoningUnasked(lp, err) == err.unsupported_reasoning

\* _try_score_batch, lines 298-300
UnsupportedReasoning(lp, err) ==
    lp.include_reasoning_controls /\ err.unsupported_reasoning

\* LoopAfterFailure without the count of the attempt.
LoopAfterFailureUncounted(lp, err) ==
    [lp EXCEPT !.last_error = err,
               !.saw_only_connectivity_failures = @ /\ err.connectivity,
               !.genuine = @ /\ err.origin = "transport"]

\* _try_score_batch, the except branch: the locals after a failed attempt
LoopAfterFailure(lp, err) ==
    [attempt |-> lp.attempt + 1,
     last_error |-> err,
     saw_only_connectivity_failures |->
        lp.saw_only_connectivity_failures /\ err.connectivity,
     response_format_mode |->
        IF ShouldSwitchSchema(lp, err) THEN "json_schema"
        ELSE IF ShouldDisableFormat(lp, err) THEN "none"
        ELSE lp.response_format_mode,
     include_reasoning_controls |->
        lp.include_reasoning_controls /\ ~UnsupportedReasoning(lp, err),
     repair |-> lp.repair,
     genuine |-> lp.genuine /\ err.origin = "transport"]

\* _try_score_batch, lines 333-342: what a failed attempt teaches the client
CapabilityAfterFailure(cap, lp, err) ==
    LET format == IF ShouldSwitchSchema(lp, err) THEN MarkResponseFormatJsonSchema(cap)
                  ELSE IF ShouldDisableFormat(lp, err) THEN MarkResponseFormatDisabled(cap)
                  ELSE cap
    IN IF UnsupportedReasoning(lp, err) THEN MarkReasoningControlsUnsupported(format)
       ELSE format

\* _try_score_batch, lines 253-261: a schema-mode parse that left too much
\* unresolved turns response_format off
CapabilityAfterParse(cap, lp, batch, parsed) ==
    IF /\ lp.response_format_mode = "json_schema"
       /\ ShouldDisableAfterPartialSchemaParse(Len(batch), Len(parsed.unresolved))
    THEN MarkResponseFormatDisabled(cap) ELSE cap

\* RunLogAfterParse writing no line for an attempt that parsed.
RunLogAfterParseSilent(log, lp, batch, parsed) == log

\* the "request" of a run-log line: the payload, of which the words it names
RequestOf(batch) == [i \in DOMAIN batch |-> batch[i].word_id]

\* _try_score_batch, lines 263-279: the line of an attempt that parsed
RunLogAfterParse(log, lp, batch, parsed) ==
    Append(log, [attempt |-> lp.attempt + 1, batch_size |-> Len(batch), error |-> FALSE,
                 request |-> RequestOf(batch),
                 parsed_count |-> Len(parsed.scores),
                 unresolved_count |-> Len(parsed.unresolved)])

\* _try_score_batch, lines 312-331: the line of an attempt that raised
RunLogAfterFailure(log, lp, batch, err) ==
    Append(log, [attempt |-> lp.attempt + 1, batch_size |-> Len(batch), error |-> TRUE,
                 request |-> RequestOf(batch),
                 parsed_count |-> 0, unresolved_count |-> 0])

\* the contexts a caller builds: full classification with or without partial
\* results, selection with an expected count and a forced level
WideContexts ==
    {Context(r, p, "score_results", Nothing, Nothing, "openai_compat", TRUE) :
        r \in 0..MaxRetries, p \in BOOLEAN}
    \cup {Context(1, FALSE, "score_results", Nothing, Nothing, "lmstudio_rest", TRUE)}
    \cup {Context(r, FALSE, "selected_word_ids", Some(e), Some(1), "openai_compat", TRUE) :
            r \in 1..MaxRetries, e \in 1..(MaxBatch - 1)}

DeepContexts == {Context(1, FALSE, "score_results", Nothing, Nothing, "openai_compat", TRUE)}

\* the selections asked of an endpoint that answers nothing usable: one word
\* of the shorter batch, or all but one
RefusedContexts ==
    {Context(1, FALSE, "selected_word_ids", Some(e), Some(1), "openai_compat", TRUE) :
        e \in {1, HalvedToDepthLimit - 1}}

\* what the endpoint may do with one request: fail, or answer naming some rows
Reply(fail, picked) == [fail |-> fail, picked |-> picked]

Replies(node) ==
    IF env = "deep"
    THEN {Reply("none", {1})}
         \cup (IF faults < MaxDeepFaults THEN {Reply("malformed", {})} ELSE {})
    ELSE IF env = "refusing"
    THEN {Reply("malformed", {})}
    ELSE {Reply(k, {}) : k \in EndpointFailures}
         \cup {Reply("none", picked) : picked \in SUBSET (1..Len(node.batch))}
         \cup {Reply("stray", {})}

\* the results array of an answer; a stray answer names no row of the batch
ReplyNodes(node, reply, output_mode) ==
    IF reply.fail = "stray" THEN <<JInt(999)>>
    ELSE AnswerNodes(node.batch, reply.picked, output_mode, 1)

ClientInit ==
    /\ capability_state = Capability("json_object", TRUE)
    /\ ctx = Context(0, FALSE, "score_results", Nothing, Nothing, "openai_compat", TRUE)
    /\ callBatch = <<>>
    /\ remainingRows = <<>>
    /\ stack = <<>>
    /\ callResults = <<>>
    /\ failedLog = <<>>
    /\ runLog = <<>>
    /\ pc = "idle"
    /\ loop = IdleLoop
    /\ env \in {"wide", "deep"}
    /\ faults = 0
    /\ maxRequestDepth = -1
    /\ raisedBy = NoRaise
    /\ exc = NoError

\* a client whose endpoint answers every request with content that is not JSON
RefusedInit ==
    /\ capability_state = Capability("json_object", TRUE)
    /\ ctx = Context(0, FALSE, "score_results", Nothing, Nothing, "openai_compat", TRUE)
    /\ callBatch = <<>>
    /\ remainingRows = <<>>
    /\ stack = <<>>
    /\ callResults = <<>>
    /\ failedLog = <<>>
    /\ runLog = <<>>
    /\ pc = "idle"
    /\ loop = IdleLoop
    /\ env = "refusing"
    /\ faults = 0
    /\ maxRequestDepth = -1
    /\ raisedBy = NoRaise
    /\ exc = NoError

ClientParked ==
    /\ capability_state = Capability("json_object", TRUE)
    /\ ctx = Context(0, FALSE, "score_results", Nothing, Nothing, "openai_compat", TRUE)
    /\ callBatch = <<>>
    /\ remainingRows = <<>>
    /\ stack = <<>>
    /\ callResults = <<>>
    /\ failedLog = <<>>
    /\ runLog = <<>>
    /\ pc = "parked"
    /\ loop = IdleLoop
    /\ env = "parked"
    /\ faults = 0
    /\ maxRequestDepth = -1
    /\ raisedBy = NoRaise
    /\ exc = NoError

TakeOutcome(o) ==
    /\ stack' = o.stack
    /\ callResults' = o.callResults
    /\ failedLog' = o.failedLog
    /\ pc' = o.pc
    /\ loop' = o.loop
    /\ raisedBy' = o.raisedBy

\* score_batch_resilient is called with a batch and a context
StartCall ==
    /\ pc \in {"idle", "returned", "raised"}
    /\ \E c \in (IF env = "deep" THEN DeepContexts
                 ELSE IF env = "refusing" THEN RefusedContexts ELSE WideContexts),
          n \in (IF env = "deep" THEN {DeepBatch}
                 ELSE IF env = "refusing"
                 THEN {HalvedToDepthLimit, DEFAULT_REBALANCE_BATCH_SIZE}
                 ELSE 1..MaxBatch) :
          /\ ctx' = c
          /\ callBatch' = ClientBatch(n)
          /\ stack' = <<Frame(ClientBatch(n), c.expected_json_items, 0)>>
    /\ callResults' = <<>>
    /\ failedLog' = <<>>
    /\ runLog' = <<>>
    /\ pc' = "enter"
    /\ loop' = IdleLoop
    /\ faults' = 0
    /\ raisedBy' = NoRaise
    /\ maxRequestDepth' = -1
    /\ exc' = NoError
    /\ UNCHANGED <<capability_state, env, remainingRows>>
    /\ UNCHANGED <<adapterVars, parserVars, rebalanceVars, toolVars>>

\* _score_batch_resilient_internal is entered for the next node, or the
\* outermost activation returns
EnterNode ==
    /\ pc = "enter"
    /\ IF stack = <<>>
       THEN /\ pc' = "returned"
            /\ UNCHANGED <<stack, callResults, failedLog, loop, raisedBy>>
       ELSE \E o \in {EnterOutcome(capability_state, ctx, stack, callResults, failedLog)} :
                TakeOutcome(o)
    /\ runLog' = IF pc' = "loop" THEN <<>> ELSE runLog
    /\ exc' = NoError
    /\ UNCHANGED <<capability_state, ctx, callBatch, remainingRows, env, faults, maxRequestDepth>>
    /\ UNCHANGED <<adapterVars, parserVars, rebalanceVars, toolVars>>

\* one pass of the retry loop of _try_score_batch: the request, the response
\* and everything the engine does until its next request
Attempt ==
    /\ pc = "loop"
    /\ \E reply \in Replies(Head(stack)) :
       \* the parser runs on a response that arrived, and only on one
       \E parsed \in {IF reply.fail \in {"none", "stray"}
                      THEN ParseResults(Head(stack).batch,
                                        ReplyNodes(Head(stack), reply, ctx.output_mode),
                                        ctx.output_mode, ctx.forced_rarity_level,
                                        Head(stack).expected)
                      ELSE ParseError(reply.fail, <<>>)} :
          LET node == Head(stack)
              limit == IF loop.repair THEN SELECTION_REPAIR_MAX_RETRIES ELSE ctx.max_retries
              answered == reply.fail \in {"none", "stray"}
              ok == answered /\ parsed.kind = "ok"
              err == IF answered THEN ErrorOfParse(parsed) ELSE ErrorOf(reply.fail)
              failed == LoopAfterFailure(loop, err)
              cap == IF ok
                     THEN CapabilityAfterParse(capability_state, loop, node.batch, parsed)
                     ELSE CapabilityAfterFailure(capability_state, loop, err)
              o == IF ok
                   THEN Resolve(cap, ctx, stack, callResults, failedLog, loop,
                                BatchAttempt(parsed.scores, parsed.unresolved, NoError, FALSE))
                   ELSE IF failed.attempt >= limit
                   THEN Resolve(cap, ctx, stack, callResults, failedLog, failed,
                                LoopExhausted(failed, node.batch))
                   ELSE Outcome(stack, callResults, failedLog, "loop", failed, NoRaise)
          IN /\ capability_state' = cap
             /\ \E taken \in {o} : TakeOutcome(taken)
             /\ runLog' = IF ok THEN RunLogAfterParse(runLog, loop, node.batch, parsed)
                          ELSE RunLogAfterFailure(runLog, loop, node.batch, err)
             /\ exc' = IF ok THEN NoError ELSE err
             /\ maxRequestDepth' = Max2(maxRequestDepth, node.depth)
             /\ faults' = IF env = "deep" /\ ~ok THEN faults + 1 ELSE faults
    /\ UNCHANGED <<ctx, callBatch, remainingRows, env>>
    /\ UNCHANGED <<adapterVars, parserVars, rebalanceVars, toolVars>>

\* the rows step 2 finds pending, in the order of the list
MaxPending == 4

\* _score_pending_batches, lines 159-173: the scoring context of the run and
\* the list of the pending rows
PendingInit ==
    /\ capability_state = Capability("json_object", TRUE)
    /\ ctx \in {Context(r, FALSE, "score_results", Nothing, Nothing, "openai_compat", TRUE) :
                    r \in 1..MaxRetries}
    /\ callBatch = <<>>
    /\ remainingRows = ClientBatch(MaxPending)
    /\ stack = <<>>
    /\ callResults = <<>>
    /\ failedLog = <<>>
    /\ runLog = <<>>
    /\ pc = "idle"
    /\ loop = IdleLoop
    /\ env = "wide"
    /\ faults = 0
    /\ maxRequestDepth = -1
    /\ raisedBy = NoRaise
    /\ exc = NoError

\* _score_pending_batches, lines 174-179: the next batch is cut from the head
\* of the list, by the size the adapter recommends, and handed to
\* score_batch_resilient; a call that raised ends the run
SubmitBatch ==
    /\ pc \in {"idle", "returned"}
    /\ remainingRows # <<>>
    /\ \E recommended_size \in 1..MaxBatch :
          LET batch_size == Min2(recommended_size, Len(remainingRows))
              batch == SubSeq(remainingRows, 1, batch_size)
          IN /\ callBatch' = batch
             /\ remainingRows' = SubSeq(remainingRows, batch_size + 1, Len(remainingRows))
             /\ stack' = <<Frame(batch, ctx.expected_json_items, 0)>>
    /\ callResults' = <<>>
    /\ failedLog' = <<>>
    /\ runLog' = <<>>
    /\ pc' = "enter"
    /\ loop' = IdleLoop
    /\ faults' = 0
    /\ raisedBy' = NoRaise
    /\ maxRequestDepth' = -1
    /\ exc' = NoError
    /\ UNCHANGED <<capability_state, ctx, env>>
    /\ UNCHANGED <<adapterVars, parserVars, rebalanceVars, toolVars>>

(***************************************************************************)
(* Step 5: the rebalance run and its stratified batch loop                 *)
(* (steps/step5_rebalance.py, transitions.py, distribution.py)             *)
(***************************************************************************)
\* Bounds of the rebalance model: words of the dataset, the largest
\* --batch-size and the longest transition list.
MaxWords == 4
MaxBatchSize == 2
MaxTransitions == 2

Words == 1..MaxWords
Levels == 1..5

\* LevelTransition
LevelTransition(from_level, to_level, from_level_upper) ==
    [from_level |-> from_level, to_level |-> to_level, from_level_upper |-> from_level_upper]

\* LevelTransition.source_levels
SourceLevels(t) ==
    IF t.from_level_upper = Nothing THEN <<t.from_level>>
    ELSE <<t.from_level, t.from_level_upper[1]>>

\* LevelTransition.other_level; 0 stands for the ValueError of a pair whose two
\* sources both equal the target
OtherLevel(t) ==
    IF t.from_level_upper # Nothing
    THEN LET src == SourceLevels(t)
             differing == {i \in DOMAIN src : src[i] # t.to_level}
         IN IF differing = {} THEN 0
            ELSE src[CHOOSE i \in differing : \A j \in differing : i <= j]
    ELSE IF t.to_level = t.from_level THEN Min2(5, t.to_level + 1)
    ELSE t.from_level

\* require_valid_transition, require_valid_pair_transition
ValidTransition(t) ==
    IF t.from_level_upper = Nothing
    THEN /\ t.from_level \in Levels /\ t.to_level \in Levels
         /\ (t.to_level = t.from_level - 1 \/ t.to_level = t.from_level)
         /\ ~(t.from_level = 5 /\ t.to_level = 5)
    ELSE /\ t.from_level \in Levels /\ t.from_level_upper[1] \in Levels /\ t.to_level \in Levels
         /\ t.from_level_upper[1] = t.from_level + 1
         /\ t.to_level \in {t.from_level, t.from_level_upper[1]}

\* validate_transition_set, its loop: `seen` maps a level to the index of the
\* last transition that has it as a source, and a level met again under
\* another index is a duplicate. `at` is the index, `k` the place in the
\* source levels of that transition.
RECURSIVE DuplicateLevels(_, _, _, _, _)
DuplicateLevels(ts, at, k, seen, duplicates) ==
    IF at > Len(ts) THEN duplicates
    ELSE IF k > Len(SourceLevels(ts[at])) THEN DuplicateLevels(ts, at + 1, 1, seen, duplicates)
    ELSE LET level == SourceLevels(ts[at])[k]
             met == \E e \in seen : e[1] = level /\ e[2] # at
         IN DuplicateLevels(ts, at, k + 1,
                            {e \in seen : e[1] # level} \cup {<<level, at>>},
                            IF met THEN duplicates \cup {level} ELSE duplicates)

\* ValidTransitionSet asking only for one transition.
ValidTransitionSetNonEmpty(ts) == ts # <<>>

\* validate_transition_set: at least one transition, no source level used by
\* two of them
ValidTransitionSet(ts) ==
    /\ ts # <<>>
    /\ DuplicateLevels(ts, 1, 1, {}, {}) = {}

\* The transitions the runs draw from: a downgrade, a keep-and-promote split
\* and the two pair transitions over the same two levels.
SampleTransitions ==
    <<LevelTransition(3, 2, Nothing), LevelTransition(2, 2, Nothing),
      LevelTransition(2, 2, Some(3)), LevelTransition(2, 3, Some(3))>>

TransitionLists ==
    {ts \in {Pick(SampleTransitions, idx) : idx \in IndexSeqs(SampleTransitions, MaxTransitions)} :
        /\ \A i \in DOMAIN ts : ValidTransition(ts[i])
        /\ ValidTransitionSet(ts)}

\* --lower-ratio as numerator and denominator; 1/3 is the default
LowerRatios == {<<1, 3>>, <<1, 2>>}

\* Step5Options, the fields the loop reads
Step5Options(batch_size, lower_ratio, transitions) ==
    [batch_size |-> batch_size, lower_ratio |-> lower_ratio, transitions |-> transitions]

\* RarityDistribution.from_levels
DistributionOf(levels_by_id) ==
    [lvl \in Levels |-> Cardinality({w \in DOMAIN levels_by_id : levels_by_id[w] = lvl})]

\* SetLevel that counts the new level and leaves the previous one as it was.
SetLevelNoDrop(counts, previous_level, new_level) ==
    IF new_level \in Levels THEN [counts EXCEPT ![new_level] = @ + 1] ELSE counts

\* RarityDistribution.set_level
SetLevel(counts, previous_level, new_level) ==
    LET dropped == IF previous_level \in Levels /\ counts[previous_level] > 0
                   THEN [counts EXCEPT ![previous_level] = @ - 1]
                   ELSE counts
    IN IF new_level \in Levels THEN [dropped EXCEPT ![new_level] = @ + 1] ELSE dropped

\* RebalanceRuntime as run_step5 builds it from the dataset
RebalanceRuntime(levels_by_id) ==
    [levels_by_id |-> levels_by_id,
     distribution |-> DistributionOf(levels_by_id),
     rebalance_rules |-> [w \in DOMAIN levels_by_id |-> Nothing],
     processed_word_ids |-> {}]

\* TransitionSummary
TransitionSummary(transition, eligible, target_assigned, switched_count) ==
    [transition |-> transition, eligible |-> eligible,
     target_assigned |-> target_assigned, switched_count |-> switched_count]

\* the counters of _apply_transition
Counters(eligible_count, processed, target_assigned, switched_count, expected_target_total, batch_index) ==
    [eligible_count |-> eligible_count, processed |-> processed,
     target_assigned |-> target_assigned, switched_count |-> switched_count,
     expected_target_total |-> expected_target_total, batch_index |-> batch_index]

NoCounters == Counters(0, 0, 0, 0, 0, 0)

\* sum(f[level] for level in source_levels)
RECURSIVE SumOver(_, _)
SumOver(source_levels, f) ==
    IF source_levels = <<>> THEN 0
    ELSE f[Head(source_levels)] + SumOver(Tail(source_levels), f)

\* rng.shuffle: every order of the list
Shuffled(s) ==
    IF s = <<>> THEN {<<>>}
    ELSE {[i \in DOMAIN s |-> s[p[i]]] : p \in Permutations(DOMAIN s)}

\* the words of one source level that the transition may still move
EligibleItems(rt, level) ==
    {w \in DOMAIN rt.levels_by_id :
        rt.levels_by_id[w] = level /\ w \notin rt.processed_word_ids}

\* every way the per-level shuffles of _apply_transition can come out
ShuffledPools(rt, source_levels) ==
    LET lvls == Range(source_levels)
        orders(level) == {q \in [1..Cardinality(EligibleItems(rt, level)) -> EligibleItems(rt, level)] :
                             Range(q) = EligibleItems(rt, level)}
    IN {pool \in [lvls -> UNION {orders(level) : level \in lvls}] :
           \A level \in lvls : pool[level] \in orders(level)}

Available(remaining_by_source_level) ==
    [level \in DOMAIN remaining_by_source_level |-> Len(remaining_by_source_level[level])]

\* PlannedQuotas without the hand-out of the words the floors leave over.
PlannedQuotasFloors(source_levels, initial_counts, batch_size) ==
    IF Len(source_levels) = 1 THEN [level \in Range(source_levels) |-> batch_size]
    ELSE [level \in Range(source_levels) |->
             (batch_size * initial_counts[level]) \div SumOver(source_levels, initial_counts)]

\* The proportional quotas of _select_stratified_batch before stock is looked
\* at: the floor of each level's share and then one more for the levels with
\* the largest remainders, earlier source level first among equals.  The
\* source divides in binary floating point; for pools of fewer than 22 words
\* the floors and the order of the remainders are those of the exact quotient.
PlannedQuotas(source_levels, initial_counts, batch_size) ==
    IF Len(source_levels) = 1 THEN [level \in Range(source_levels) |-> batch_size]
    ELSE LET total_initial == SumOver(source_levels, initial_counts)
             floors == [level \in Range(source_levels) |->
                           (batch_size * initial_counts[level]) \div total_initial]
             fraction(i) == (batch_size * initial_counts[source_levels[i]]) % total_initial
             unassigned == batch_size - SumOver(source_levels, floors)
             \* place of source_levels[i] in sorted(..., reverse=True), a stable sort
             place(i) == 1 + Cardinality({j \in DOMAIN source_levels :
                                             \/ fraction(j) > fraction(i)
                                             \/ fraction(j) = fraction(i) /\ j < i})
         IN [level \in Range(source_levels) |->
                LET i == CHOOSE k \in DOMAIN source_levels : source_levels[k] = level
                IN IF place(i) <= unassigned THEN floors[level] + 1 ELSE floors[level]]

\* a quota above the stock of its level is cut to the stock
CapQuotas(quotas, available) ==
    [level \in DOMAIN quotas |-> Min2(quotas[level], available[level])]

\* Missing with the cuts forgotten.
MissingIgnored(source_levels, quotas, available) == 0

\* what the cuts took away
Missing(source_levels, quotas, available) ==
    SumOver(source_levels, [level \in DOMAIN quotas |-> Max2(0, quotas[level] - available[level])])

\* the while loop of _select_stratified_batch: one word at a time to the level
\* with the most spare stock, the earliest such level among equals
RECURSIVE Backfill(_, _, _, _)
Backfill(source_levels, quotas, available, missing) ==
    LET candidates == {i \in DOMAIN source_levels :
                          quotas[source_levels[i]] < available[source_levels[i]]}
        spare(i) == available[source_levels[i]] - quotas[source_levels[i]]
    IN IF missing <= 0 \/ candidates = {} THEN quotas
       ELSE LET best == CHOOSE i \in candidates :
                            \A j \in candidates :
                                spare(j) < spare(i) \/ (spare(j) = spare(i) /\ i <= j)
            IN Backfill(source_levels,
                        [quotas EXCEPT ![source_levels[best]] = @ + 1],
                        available, missing - 1)

\* queue.pop() take times: the words leave the end of the queue
PoppedWords(queue, take) ==
    LET n == Min2(take, Len(queue))
    IN [i \in 1..n |-> queue[Len(queue) + 1 - i]]

AfterPop(queue, take) == SubSeq(queue, 1, Len(queue) - Min2(take, Len(queue)))

\* the batch list of _select_stratified_batch before its shuffle
RECURSIVE TakeBatch(_, _, _)
TakeBatch(source_levels, remaining_by_source_level, quotas) ==
    IF source_levels = <<>> THEN <<>>
    ELSE PoppedWords(remaining_by_source_level[Head(source_levels)], quotas[Head(source_levels)])
         \o TakeBatch(Tail(source_levels), remaining_by_source_level, quotas)

\* _select_stratified_batch up to its shuffle: the words taken and the queues
\* left behind
SelectStratifiedBatch(source_levels, remaining_by_source_level, initial_counts, max_batch_size) ==
    LET available == Available(remaining_by_source_level)
        total_remaining == SumOver(source_levels, available)
    IN IF total_remaining = 0
       THEN [batch |-> <<>>, remaining |-> remaining_by_source_level]
       ELSE LET batch_size == Min2(max_batch_size, total_remaining)
                planned == PlannedQuotas(source_levels, initial_counts, batch_size)
                quotas == Backfill(source_levels, CapQuotas(planned, available), available,
                                   Missing(source_levels, planned, available))
            IN [batch |-> TakeBatch(source_levels, remaining_by_source_level, quotas),
                remaining |-> [level \in DOMAIN remaining_by_source_level |->
                                  AfterPop(remaining_by_source_level[level], quotas[level])]]

\* round(count * ratio)
RoundRatio(count, ratio) == RoundHalfEven(count * ratio[1], ratio[2])

\* ComputeAdaptiveTargetCount with each batch rounded on its own.
ComputeTargetCountPerBatch(processed_before_batch, assigned_before_batch, batch_size, ratio, expected_total) ==
    RoundRatio(batch_size, ratio)

\* ComputeAdaptiveTargetCount with what was assigned before left out of the
\* difference.
ComputeTargetCountFromZero(processed_before_batch, assigned_before_batch, batch_size, ratio, expected_total) ==
    IF batch_size <= 0 THEN 0
    ELSE Max2(0, Min2(batch_size,
                      Max2(0, Min2(expected_total,
                                   RoundRatio(processed_before_batch + batch_size, ratio)))))

\* _compute_adaptive_target_count
ComputeAdaptiveTargetCount(processed_before_batch, assigned_before_batch, batch_size, ratio, expected_total) ==
    IF batch_size <= 0 THEN 0
    ELSE LET processed_after == processed_before_batch + batch_size
             desired_cumulative == Max2(0, Min2(expected_total, RoundRatio(processed_after, ratio)))
             delta == desired_cumulative - assigned_before_batch
         IN Max2(0, Min2(batch_size, delta))

\* what score_batch_resilient can hand back for a selection request: the word
\* ids of any part of the batch, each with the forced level, or the
\* connectivity RuntimeError
ConnectivityRaise == [raised |-> TRUE, ids |-> {}]
Scored(ids) == [raised |-> FALSE, ids |-> ids]
ScoredReplies(batch) == {ConnectivityRaise} \cup {Scored(ids) : ids \in SUBSET Range(batch)}

\* TrivialCount with every batch sent to the engine.
TrivialCountNever(common_count, size) == FALSE

\* _apply_transition, lines 284-287: a common count of none or all of the batch
\* needs no selection
TrivialCount(common_count, size) == common_count <= 0 \/ common_count >= size

\* One call of _score_transition_batch: the rows sent, expected_json_items,
\* forced_rarity_level and what score_batch_resilient gave back.
ScoringCall(batch, common_count, common_level, scored) ==
    [batch |-> batch, expected_json_items |-> common_count,
     forced_rarity_level |-> common_level, scored |-> scored]

\* SelectCommonWordIds with any number of selected words taken as it comes.
SelectCommonWordIdsAnyCount(batch, scored, common_count) == Some(scored.ids \cap Range(batch))

\* _select_common_word_ids: the distinct ids scored, or Nothing for the
\* RuntimeError of a count that is not common_count
SelectCommonWordIds(batch, scored, common_count) ==
    LET selected == scored.ids \cap Range(batch)
    IN IF Cardinality(selected) # common_count THEN Nothing ELSE Some(selected)

\* "sources->next_level (via sources:to_level)"
Rule(transition, next_level) ==
    [sources |-> SourceLevels(transition), next_level |-> next_level, via |-> transition.to_level]

\* SwitchedWordEvent
SwitchedWordEvent(word_id, previous_level, next_level, rule, selected_by_llm) ==
    [word_id |-> word_id, previous_level |-> previous_level, next_level |-> next_level,
     rule |-> rule, selected_by_llm |-> selected_by_llm]

\* _apply_batch_assignments: the runtime after the batch and the switched events
RECURSIVE ApplyBatchAssignments(_, _, _, _, _)
ApplyBatchAssignments(batch, selected_common_word_ids, transition, rt, switched_events) ==
    IF batch = <<>> THEN [runtime |-> rt, switched_events |-> switched_events]
    ELSE LET word_id == Head(batch)
             common_level == Min2(transition.to_level, OtherLevel(transition))
             rare_level == Max2(transition.to_level, OtherLevel(transition))
             next_level == IF word_id \in selected_common_word_ids THEN common_level ELSE rare_level
             previous == rt.levels_by_id[word_id]
             switched == previous # next_level
             after == [levels_by_id |-> [rt.levels_by_id EXCEPT ![word_id] = next_level],
                       distribution |-> SetLevel(rt.distribution, previous, next_level),
                       rebalance_rules |->
                           IF switched
                           THEN [rt.rebalance_rules EXCEPT ![word_id] = Some(Rule(transition, next_level))]
                           ELSE rt.rebalance_rules,
                       processed_word_ids |-> rt.processed_word_ids \cup {word_id}]
         IN ApplyBatchAssignments(
                Tail(batch), selected_common_word_ids, transition, after,
                IF switched
                THEN Append(switched_events,
                            SwitchedWordEvent(word_id, previous, next_level,
                                              Rule(transition, next_level),
                                              word_id \in selected_common_word_ids))
                ELSE switched_events)

\* CheckpointRecord naming only the words whose level changed as processed.
CheckpointRecordSwitchedOnly(transition, processed_word_ids, switched_events) ==
    [transition |-> [sources |-> SourceLevels(transition), to_level |-> transition.to_level],
     processed_word_ids |-> [i \in DOMAIN switched_events |-> switched_events[i].word_id],
     switched |-> [i \in DOMAIN switched_events |->
                      [word_id |-> switched_events[i].word_id,
                       new_level |-> switched_events[i].next_level,
                       rule |-> switched_events[i].rule]]]

\* the record _append_batch_checkpoint writes
CheckpointRecord(transition, processed_word_ids, switched_events) ==
    [transition |-> [sources |-> SourceLevels(transition), to_level |-> transition.to_level],
     processed_word_ids |-> processed_word_ids,
     switched |-> [i \in DOMAIN switched_events |->
                      [word_id |-> switched_events[i].word_id,
                       new_level |-> switched_events[i].next_level,
                       rule |-> switched_events[i].rule]]]

\* Step5ResumeStats
Step5ResumeStats(resumed_batches, resumed_processed_words, resumed_switched_words) ==
    [resumed_batches |-> resumed_batches, resumed_processed_words |-> resumed_processed_words,
     resumed_switched_words |-> resumed_switched_words]

\* _restore_from_checkpoint, the ids of one record's "processed_word_ids"
\* that it adds to the processed set
RestoredProcessed(record, data, rt) ==
    {word_id \in Range(record.processed_word_ids) :
        word_id > 0 /\ word_id \in DOMAIN data /\ word_id \notin rt.processed_word_ids}

\* _restore_from_checkpoint, its loop over the "switched" items of one record
RECURSIVE RestoreSwitched(_, _, _, _, _)
RestoreSwitched(items, data, rt, applied_switched_ids, resumed_switched) ==
    IF items = <<>>
    THEN [runtime |-> rt, applied_switched_ids |-> applied_switched_ids,
          resumed_switched |-> resumed_switched]
    ELSE LET word_id == Head(items).word_id
             new_level == Head(items).new_level
         IN IF \/ word_id <= 0 \/ new_level \notin Levels
               \/ word_id \notin DOMAIN data \/ word_id \in applied_switched_ids
            THEN RestoreSwitched(Tail(items), data, rt, applied_switched_ids, resumed_switched)
            ELSE RestoreSwitched(
                     Tail(items), data,
                     [rt EXCEPT !.levels_by_id[word_id] = new_level,
                                !.distribution = SetLevel(@, rt.levels_by_id[word_id], new_level),
                                !.rebalance_rules[word_id] = Some(Head(items).rule)],
                     applied_switched_ids \cup {word_id}, resumed_switched + 1)

\* _restore_from_checkpoint, its loop over the lines of the file
RECURSIVE RestoreRecords(_, _, _, _, _)
RestoreRecords(log, data, rt, applied_switched_ids, stats) ==
    IF log = <<>> THEN [runtime |-> rt, stats |-> stats]
    ELSE LET added == RestoredProcessed(Head(log), data, rt)
             marked == [rt EXCEPT !.processed_word_ids = @ \cup added]
             switched == RestoreSwitched(Head(log).switched, data, marked, applied_switched_ids, 0)
         IN RestoreRecords(
                Tail(log), data, switched.runtime, switched.applied_switched_ids,
                Step5ResumeStats(stats.resumed_batches + 1,
                                 stats.resumed_processed_words + Cardinality(added),
                                 stats.resumed_switched_words + switched.resumed_switched))

\* RestoreFromCheckpoint restoring the levels and rules but not the processed ids.
RestoreFromCheckpointLevelsOnly(data, rt, log) ==
    LET restored == RestoreRecords(log, data, rt, {}, Step5ResumeStats(0, 0, 0))
    IN [restored EXCEPT !.runtime.processed_word_ids = rt.processed_word_ids]

\* RestoreFromCheckpoint leaving the rules of the runtime as it found them.
RestoreFromCheckpointNoRules(data, rt, log) ==
    LET restored == RestoreRecords(log, data, rt, {}, Step5ResumeStats(0, 0, 0))
    IN [restored EXCEPT !.runtime.rebalance_rules = rt.rebalance_rules]

\* _restore_from_checkpoint: the runtime after it and the Step5ResumeStats; a
\* missing file is the empty log
RestoreFromCheckpoint(data, rt, log) ==
    RestoreRecords(log, data, rt, {}, Step5ResumeStats(0, 0, 0))

\* One batch as _apply_transition met it: the words in the order handed on and
\* the size of the pool it was drawn from.
Draw(batch, pool_before) == [batch |-> batch, pool_before |-> pool_before]

\* the words still queued, over all source levels
PoolSize == Cardinality(UNION {Range(remaining_by_source[level]) : level \in DOMAIN remaining_by_source})

\* The datasets of the runs: the first words at level 2 and the others at
\* level 3, in every proportion.  The shuffles put the words of a level in
\* every order, so which ids carry which level adds no behaviour.
DatasetLevels == {[w \in Words |-> IF w <= low THEN 2 ELSE 3] : low \in 0..MaxWords}

\* run_step5 up to its loop over the transitions, a run without a checkpoint
RebalanceInit ==
    /\ \E batch_size \in 0..MaxBatchSize, lower_ratio \in LowerRatios, transitions \in TransitionLists :
          options = Step5Options(batch_size, lower_ratio, transitions)
    /\ dataset \in DatasetLevels
    /\ checkpoint = <<>>
    /\ runtime = RestoreFromCheckpoint(dataset, RebalanceRuntime(dataset), checkpoint).runtime
    /\ resume_stats = RestoreFromCheckpoint(dataset, RebalanceRuntime(dataset), checkpoint).stats
    /\ transition_index = 1
    /\ remaining_by_source = <<>>
    /\ initial_source_counts = <<>>
    /\ counters = NoCounters
    /\ summaries = <<>>
    /\ eligible_ids = {}
    /\ drawn = <<>>
    /\ scoring_calls = <<>>
    /\ rpc = "run"

RebalanceParked ==
    /\ options = Step5Options(0, <<1, 3>>, <<>>)
    /\ runtime = RebalanceRuntime(<<>>)
    /\ transition_index = 1
    /\ remaining_by_source = <<>>
    /\ initial_source_counts = <<>>
    /\ counters = NoCounters
    /\ checkpoint = <<>>
    /\ summaries = <<>>
    /\ eligible_ids = {}
    /\ drawn = <<>>
    /\ scoring_calls = <<>>
    /\ rpc = "parked"
    /\ dataset = <<>>
    /\ resume_stats = Step5ResumeStats(0, 0, 0)

\* _apply_transition from its entry to the loop: the pools are built and
\* shuffled; with nothing eligible the summary is returned at once
ApplyTransition ==
    /\ rpc = "run"
    /\ transition_index <= Len(options.transitions)
    /\ LET transition == options.transitions[transition_index]
           source_levels == SourceLevels(transition)
       IN \E pools \in ShuffledPools(runtime, source_levels) :
             LET counts == Available(pools)
                 eligible_count == SumOver(source_levels, counts)
             IN /\ eligible_ids' = UNION {Range(pools[level]) : level \in DOMAIN pools}
                /\ drawn' = <<>>
                /\ remaining_by_source' = pools
                /\ initial_source_counts' = counts
                /\ IF eligible_count = 0
                   THEN /\ summaries' = Append(summaries, TransitionSummary(transition, 0, 0, 0))
                        /\ transition_index' = transition_index + 1
                        /\ counters' = NoCounters
                        /\ rpc' = "run"
                   ELSE /\ counters' = Counters(eligible_count, 0, 0, 0,
                                                RoundRatio(eligible_count, options.lower_ratio), 0)
                        /\ UNCHANGED <<summaries, transition_index>>
                        /\ rpc' = "loop"
    /\ UNCHANGED <<options, runtime, checkpoint, scoring_calls, dataset, resume_stats>>
    /\ UNCHANGED <<adapterVars, parserVars, clientVars, toolVars>>

\* what the loop of _apply_transition selects next
NextSelection ==
    SelectStratifiedBatch(SourceLevels(options.transitions[transition_index]),
                          remaining_by_source, initial_source_counts, options.batch_size)

\* one pass of the loop of _apply_transition that got a batch: target count,
\* selection by the endpoint where one is needed, assignments, checkpoint
ProcessBatch ==
    /\ rpc = "loop"
    /\ NextSelection.batch # <<>>
    /\ LET transition == options.transitions[transition_index]
           common_level == Min2(transition.to_level, OtherLevel(transition))
       IN \E selection \in {NextSelection} : \E batch \in Shuffled(selection.batch) :
          LET target_count == ComputeAdaptiveTargetCount(
                                  counters.processed, counters.target_assigned, Len(batch),
                                  options.lower_ratio, counters.expected_target_total)
              common_count == IF transition.to_level = common_level
                              THEN target_count ELSE Len(batch) - target_count
              \* the endpoint is asked only for a count strictly inside the batch
              replies == IF TrivialCount(common_count, Len(batch))
                         THEN {Scored({})} ELSE ScoredReplies(batch)
          IN \E scored \in replies :
             LET selected == IF TrivialCount(common_count, Len(batch))
                             THEN (IF common_count <= 0 THEN Some({}) ELSE Some(Range(batch)))
                             ELSE IF scored.raised THEN Nothing
                             ELSE SelectCommonWordIds(batch, scored, common_count)
             IN /\ drawn' = Append(drawn, Draw(batch, PoolSize))
                /\ scoring_calls' = IF TrivialCount(common_count, Len(batch))
                                    THEN scoring_calls
                                    ELSE Append(scoring_calls,
                                                ScoringCall(batch, common_count, common_level, scored))
                /\ remaining_by_source' = selection.remaining
                /\ IF selected = Nothing
                   THEN /\ rpc' = "raised"
                        /\ counters' = [counters EXCEPT !.batch_index = @ + 1,
                                                        !.processed = @ + Len(batch)]
                        /\ UNCHANGED <<runtime, checkpoint>>
                   ELSE \E applied \in {ApplyBatchAssignments(batch, selected[1], transition, runtime, <<>>)} :
                        LET assigned_to_target ==
                                IF transition.to_level = common_level
                                THEN Cardinality(selected[1])
                                ELSE Len(batch) - Cardinality(selected[1])
                        IN /\ rpc' = "loop"
                           /\ runtime' = applied.runtime
                           /\ checkpoint' = Append(checkpoint,
                                  CheckpointRecord(transition, batch, applied.switched_events))
                           /\ counters' = [counters EXCEPT
                                  !.batch_index = @ + 1,
                                  !.processed = @ + Len(batch),
                                  !.target_assigned = @ + assigned_to_target,
                                  !.switched_count = @ + Len(applied.switched_events)]
    /\ UNCHANGED <<options, transition_index, initial_source_counts, summaries, eligible_ids,
                   dataset, resume_stats>>
    /\ UNCHANGED <<adapterVars, parserVars, clientVars, toolVars>>

\* the pass of the loop that got no batch: break, and the summary goes back to
\* run_step5
EndTransition ==
    /\ rpc = "loop"
    /\ NextSelection.batch = <<>>
    /\ summaries' = Append(summaries,
          TransitionSummary(options.transitions[transition_index], counters.eligible_count,
                            counters.target_assigned, counters.switched_count))
    /\ transition_index' = transition_index + 1
    /\ rpc' = "run"
    /\ UNCHANGED <<options, runtime, remaining_by_source, initial_source_counts, counters,
                   checkpoint, eligible_ids, drawn, scoring_calls, dataset, resume_stats>>
    /\ UNCHANGED <<adapterVars, parserVars, clientVars, toolVars>>

\* run_step5 after its last transition: _write_output
WriteOutput ==
    /\ rpc = "run"
    /\ transition_index > Len(options.transitions)
    /\ rpc' = "written"
    /\ UNCHANGED <<options, runtime, transition_index, remaining_by_source,
                   initial_source_counts, counters, checkpoint, summaries, eligible_ids, drawn,
                   scoring_calls, dataset, resume_stats>>
    /\ UNCHANGED <<adapterVars, parserVars, clientVars, toolVars>>

NextRebalance == ApplyTransition \/ ProcessBatch \/ EndTransition \/ WriteOutput

\* The process is stopped, at any point of run_step5, and the same command is
\* run again: what the stopped process held in memory is gone, the checkpoint
\* file is as its last completed append left it, the input table is unchanged
\* (only _write_output writes, and to the output path), and run_step5 starts
\* over from the input table and _restore_from_checkpoint.
Restart ==
    /\ rpc \in {"run", "loop", "raised", "written"}
    /\ \E restored \in {RestoreFromCheckpoint(dataset, RebalanceRuntime(dataset), checkpoint)} :
          /\ runtime' = restored.runtime
          /\ resume_stats' = restored.stats
    /\ transition_index' = 1
    /\ remaining_by_source' = <<>>
    /\ initial_source_counts' = <<>>
    /\ counters' = NoCounters
    /\ summaries' = <<>>
    /\ eligible_ids' = {}
    /\ drawn' = <<>>
    /\ scoring_calls' = <<>>
    /\ rpc' = "run"
    /\ UNCHANGED <<options, checkpoint, dataset>>
    /\ UNCHANGED <<adapterVars, parserVars, clientVars, toolVars>>

NextResume == NextRebalance \/ Restart

(***************************************************************************)
(* The chained campaign (tools/chain_rebalance_target_dist.py)             *)
(***************************************************************************)
\* the steps of the campaign: the list "transitions" of run_chain_rebalance
ChainSteps == 8

\* the transition of each step
ChainTransition(step) ==
    IF step <= 3 THEN LevelTransition(1, 1, Some(2))
    ELSE IF step <= 5 THEN LevelTransition(2, 2, Some(3))
    ELSE IF step <= 7 THEN LevelTransition(3, 3, Some(4))
    ELSE LevelTransition(4, 4, Some(5))

\* _write_state: what the state file holds after it
StateRecord(step, csv) == [last_completed_step |-> step, current_csv |-> csv]

\* run_chain_rebalance without a state file: the last of the leading steps
\* whose output exists
LeadingOutputs(outputs) ==
    IF \E k \in 1..ChainSteps : k \notin outputs
    THEN (CHOOSE k \in 1..ChainSteps : k \notin outputs /\ \A j \in 1..(k - 1) : j \in outputs) - 1
    ELSE ChainSteps

\* SkipsStep skipping the steps below last_completed only.
SkipsStepBelow(resume, step, completed) == resume /\ step < completed

\* the loop of run_chain_rebalance: a completed step is skipped on resume
SkipsStep(resume, step, completed) == resume /\ step <= completed

\* one call of run_step5 by the campaign
EngineRun(step, input_csv, output_csv) ==
    [step |-> step, transition |-> ChainTransition(step), input_csv |-> input_csv,
     output_csv |-> output_csv]

ChainInit ==
    /\ chain_resume \in BOOLEAN
    /\ last_completed = 0
    /\ current_csv = 0
    /\ step_idx = 1
    /\ state_file = Nothing
    /\ step_outputs = {}
    /\ engine_runs = <<>>
    /\ cpc = "start"

ChainParked ==
    /\ chain_resume = FALSE
    /\ last_completed = 0
    /\ current_csv = 0
    /\ step_idx = 1
    /\ state_file = Nothing
    /\ step_outputs = {}
    /\ engine_runs = <<>>
    /\ cpc = "parked"

\* run_chain_rebalance up to its loop: where to resume from, then the target
\* distribution, which raises for a table too small for it
ChainStart ==
    /\ cpc = "start"
    /\ \E target_valid \in BOOLEAN :
          LET from_state == chain_resume /\ state_file # Nothing
              completed == IF from_state THEN state_file[1].last_completed_step
                           ELSE IF chain_resume THEN LeadingOutputs(step_outputs)
                           ELSE 0
              csv == IF from_state THEN state_file[1].current_csv ELSE completed
          IN /\ last_completed' = completed
             /\ current_csv' = csv
             /\ cpc' = IF (csv # 0 /\ csv \notin step_outputs) \/ ~target_valid
                       THEN "aborted" ELSE "loop"
    /\ step_idx' = 1
    /\ UNCHANGED <<chain_resume, state_file, step_outputs, engine_runs>>
    /\ UNCHANGED <<coreVars, repoVars, lockVars, pureVars>>

\* one pass of the loop over the steps: a completed step is skipped, or fails
\* on its missing output; any other step checks its pool and ratio, runs
\* run_step5 from current_csv to its own output and writes the state file.
\* The pass can raise before run_step5, run_step5 can raise, and the process
\* can be stopped between the output of run_step5 and the state file.
ChainStep ==
    /\ cpc = "loop"
    /\ step_idx <= ChainSteps
    /\ IF SkipsStep(chain_resume, step_idx, last_completed)
       THEN /\ IF step_idx \notin step_outputs
               THEN cpc' = "aborted" /\ UNCHANGED <<current_csv, step_idx>>
               ELSE cpc' = "loop" /\ current_csv' = step_idx /\ step_idx' = step_idx + 1
            /\ UNCHANGED <<state_file, step_outputs, engine_runs>>
       ELSE \E outcome \in {"invalid", "engine_raised", "stopped", "done"} :
               /\ engine_runs' = IF outcome = "invalid" THEN engine_runs
                                 ELSE Append(engine_runs, EngineRun(step_idx, current_csv, step_idx))
               /\ step_outputs' = IF outcome \in {"stopped", "done"}
                                  THEN step_outputs \cup {step_idx} ELSE step_outputs
               /\ IF outcome = "done"
                  THEN /\ current_csv' = step_idx
                       /\ state_file' = Some(StateRecord(step_idx, step_idx))
                       /\ step_idx' = step_idx + 1
                       /\ cpc' = "loop"
                  ELSE /\ cpc' = IF outcome = "stopped" THEN "killed" ELSE "aborted"
                       /\ UNCHANGED <<current_csv, state_file, step_idx>>
    /\ UNCHANGED <<chain_resume, last_completed>>
    /\ UNCHANGED <<coreVars, repoVars, lockVars, pureVars>>

\* run_chain_rebalance after its loop: the state file once more, then the
\* quality audit, which can fail
ChainFinish ==
    /\ cpc = "loop"
    /\ step_idx > ChainSteps
    /\ state_file' = Some(StateRecord(ChainSteps, current_csv))
    /\ \E passed \in BOOLEAN : cpc' = IF passed THEN "finished" ELSE "aborted"
    /\ UNCHANGED <<chain_resume, last_completed, current_csv, step_idx, step_outputs, engine_runs>>
    /\ UNCHANGED <<coreVars, repoVars, lockVars, pureVars>>

\* The campaign is started again with --resume (the default), after it
\* ended or was stopped between two passes; the files stay.
ChainResume ==
    /\ cpc \in {"loop", "finished", "aborted", "killed"}
    /\ chain_resume' = TRUE
    /\ last_completed' = 0
    /\ current_csv' = 0
    /\ step_idx' = 1
    /\ engine_runs' = <<>>
    /\ cpc' = "start"
    /\ UNCHANGED <<state_file, step_outputs>>
    /\ UNCHANGED <<coreVars, repoVars, lockVars, pureVars>>

\* Between two runs of the campaign somebody removes the output of a step.
RemoveOutput ==
    /\ cpc \in {"finished", "aborted", "killed"}
    /\ \E step \in step_outputs : step_outputs' = step_outputs \ {step}
    /\ UNCHANGED <<chain_resume, last_completed, current_csv, step_idx, state_file, engine_runs, cpc>>
    /\ UNCHANGED <<coreVars, repoVars, lockVars, pureVars>>

NextChain == ChainStart \/ ChainStep \/ ChainFinish \/ ChainResume \/ RemoveOutput

(***************************************************************************)
(* The run table: guarded merge (run_csv_repository.py) and atomic write   *)
(* (csv_codec.py)                                                          *)
(***************************************************************************)
MaxWordId == 3
MaxRows == 2

\* the target table and the temporary file next to it
Paths == {"out.csv", "out.csv.tmp"}

\* RunCsvRow: the id and the level stand for the row
RunCsvRow(word_id, rarity_level) == [word_id |-> word_id, rarity_level |-> rarity_level]

\* the header line of a run table
HeaderLine == [header |-> "RUN_CSV_HEADERS"]

\* _serialize_for_headers: the cells as text
SerializeForHeaders(row) ==
    [word_id |-> IntToChars(row.word_id), rarity_level |-> IntToChars(row.rarity_level)]

\* load_run_rows, the row of one record: _parse_int of its cells
ParsedRow(line) == RunCsvRow(ParseInt(line.word_id)[1], ParseInt(line.rarity_level)[1])

\* ByWordId keeping per id the first row with it.
ByWordIdFirst(rows) ==
    {rows[i] : i \in {k \in DOMAIN rows : \A j \in DOMAIN rows : rows[j].word_id = rows[k].word_id => j >= k}}

\* the dict {r.word_id: r for r in rows}: per id the last row with it
ByWordId(rows) ==
    {rows[i] : i \in {k \in DOMAIN rows : \A j \in DOMAIN rows : rows[j].word_id = rows[k].word_id => j <= k}}

\* load_run_rows: no rows for a missing file, Nothing for the CsvFormatError of
\* a file without a header line, else the rows by id, sorted
LoadRunRows(content) ==
    IF content = Nothing THEN Some(<<>>)
    ELSE IF content[1] = <<>> \/ Head(content[1]) # HeaderLine THEN Nothing
    ELSE LET records == Tail(content[1])
         IN Some(SortedById(ByWordId([i \in DOMAIN records |-> ParsedRow(records[i])])))

\* compute_baseline
ComputeBaseline(rows) ==
    LET ids == {rows[i].word_id : i \in DOMAIN rows}
    IN IF rows = <<>> THEN [count |-> 0, min_id |-> Nothing, max_id |-> Nothing]
       ELSE [count |-> Len(rows),
             min_id |-> Some(CHOOSE a \in ids : \A b \in ids : a <= b),
             max_id |-> Some(CHOOSE a \in ids : \A b \in ids : a >= b)]

\* MergedRows keeping the rows of the call only.
MergedRowsOfCallOnly(file_rows, rows) == SortedById(ByWordId(rows))

\* merge_and_rewrite_atomic, lines 83-86: the rows of the file, each replaced
\* by the row of the call with its id, and the other rows of the call
MergedRows(file_rows, rows) == SortedById(ByWordId(file_rows \o rows))

\* Shrunk without the check of the largest id.
ShrunkNoMaxId(merged_rows, base) ==
    \/ Len(merged_rows) < base.count
    \/ base.min_id # Nothing /\ merged_rows # <<>> /\ merged_rows[1].word_id > base.min_id[1]

\* _assert_not_shrunk raises
Shrunk(merged_rows, base) ==
    \/ Len(merged_rows) < base.count
    \/ base.min_id # Nothing /\ merged_rows # <<>> /\ merged_rows[1].word_id > base.min_id[1]
    \/ base.max_id # Nothing /\ merged_rows # <<>>
           /\ merged_rows[Len(merged_rows)].word_id < base.max_id[1]

\* rewrite_run_rows_atomic: the lines of the table, header first
TableLines(rows) == <<HeaderLine>> \o [i \in DOMAIN rows |-> SerializeForHeaders(rows[i])]

\* TmpPath writing straight to the target.
TmpPathIsTarget(path) == path

\* write_table_atomic, line 67: the sibling file "<name>.tmp"
TmpPath(path) == IF path = "out.csv" THEN "out.csv.tmp" ELSE path

\* os.replace
Replaced(files, src, dst) ==
    [p \in Paths |-> IF p = dst THEN files[src] ELSE IF p = src THEN Nothing ELSE files[p]]

\* sequences of rows at one level
RowSeqs(level) ==
    UNION {[1..n -> {RunCsvRow(id, level) : id \in 1..MaxWordId}] : n \in 0..MaxRows}

\* the rows a table can hold, as append_run_rows left them: an id can come
\* more than once.  The rows scored earlier are at level 1; load_run_rows
\* sorts what it reads, so the tables are taken with their ids in order.
FileRowSeqs(level) ==
    {rows \in RowSeqs(level) : \A i, j \in DOMAIN rows : i <= j => rows[i].word_id <= rows[j].word_id}

\* the rows a call can be handed, the values of a dict by word id (run_step2,
\* line 87): one row per id, in any order, at level 2
CallRowSeqs(level) ==
    {rows \in RowSeqs(level) : \A i, j \in DOMAIN rows : rows[i].word_id = rows[j].word_id => i = j}

\* A run: the target is missing or holds rows appended earlier, a temporary
\* file may be left from a stopped write, and the baseline was computed from
\* what load_run_rows gave when the run started, before rows went missing.
RepoInit ==
    /\ \E target \in {Nothing} \cup {Some(TableLines(rows)) : rows \in FileRowSeqs(1)},
          left \in {Nothing, Some(<<HeaderLine>>)} :
          fs = [p \in Paths |-> IF p = "out.csv" THEN target ELSE left]
    /\ \E rows \in FileRowSeqs(1) : baseline = ComputeBaseline(SortedById(ByWordId(rows)))
    /\ in_memory_rows \in CallRowSeqs(2)
    /\ unwritten = <<>>
    /\ job = Nothing
    /\ wpc = "idle"

RepoParked ==
    /\ fs = [p \in Paths |-> Nothing]
    /\ baseline = ComputeBaseline(<<>>)
    /\ in_memory_rows = <<>>
    /\ unwritten = <<>>
    /\ job = Nothing
    /\ wpc = "parked"

\* merge_and_rewrite_atomic up to the first write: load, merge, guard, and
\* write_table opening the temporary file
MergeAndRewriteAtomic ==
    /\ wpc = "idle"
    /\ \E loaded \in {LoadRunRows(fs["out.csv"])} :
          IF loaded = Nothing \/ Shrunk(MergedRows(loaded[1], in_memory_rows), baseline)
          THEN /\ wpc' = "raised"
               /\ job' = Some([old |-> fs["out.csv"], new |-> Nothing])
               /\ UNCHANGED <<fs, unwritten>>
          ELSE \E lines \in {TableLines(MergedRows(loaded[1], in_memory_rows))} :
               /\ wpc' = "writing"
               /\ job' = Some([old |-> fs["out.csv"], new |-> Some(lines)])
               /\ fs' = [fs EXCEPT ![TmpPath("out.csv")] = Some(<<>>)]
               /\ unwritten' = lines
    /\ UNCHANGED <<baseline, in_memory_rows>>
    /\ UNCHANGED <<coreVars, chainVars, lockVars, pureVars>>

\* write_table: the next line goes to the file
WriteLine ==
    /\ wpc = "writing"
    /\ unwritten # <<>>
    /\ fs' = [fs EXCEPT ![TmpPath("out.csv")] = Some(Append(@[1], Head(unwritten)))]
    /\ unwritten' = Tail(unwritten)
    /\ UNCHANGED <<baseline, in_memory_rows, job, wpc>>
    /\ UNCHANGED <<coreVars, chainVars, lockVars, pureVars>>

\* write_table_atomic, line 69: the file is closed and renamed over the target
ReplaceTmp ==
    /\ wpc = "writing"
    /\ unwritten = <<>>
    /\ fs' = Replaced(fs, TmpPath("out.csv"), "out.csv")
    /\ wpc' = "written"
    /\ UNCHANGED <<baseline, in_memory_rows, unwritten, job>>
    /\ UNCHANGED <<coreVars, chainVars, lockVars, pureVars>>

\* the write fails or the process is stopped, anywhere before the rename
Terminate ==
    /\ wpc = "writing"
    /\ wpc' = "dead"
    /\ UNCHANGED <<fs, baseline, in_memory_rows, unwritten, job>>
    /\ UNCHANGED <<coreVars, chainVars, lockVars, pureVars>>

NextRepo == MergeAndRewriteAtomic \/ WriteLine \/ ReplaceTmp \/ Terminate

(***************************************************************************)
(* The output lock of a scoring run (lock_manager.py, run_step2)           *)
(***************************************************************************)
MaxRuns == 2
MaxRequests == 2

\* the scoring runs, each a process with its own handle on the lock file
Runs == 1..MaxRuns

\* the output tables; the lock file of a table is "<name>.lock" next to it
Tables == {"a.csv", "b.csv"}

\* one run: its output table, its place in run_step2, the status records it
\* wrote, the requests it sent, whether it wrote to the output table
ScoringRun(table, place, status, requests, touched) ==
    [table |-> table, place |-> place, status |-> status, requests |-> requests,
     touched |-> touched]

\* CanLock granting the lock whoever holds it.
CanLockAlways(holders, table, run) == TRUE

\* flock(LOCK_EX | LOCK_NB) on a handle: granted when no other handle holds
\* the lock of the file
CanLock(holders, table, run) == holders[table] \subseteq {run}

\* flock(LOCK_UN) on a handle, or its close: the handle holds the lock no more
Unlocked(holders, table, run) == [holders EXCEPT ![table] = @ \ {run}]

LockInit ==
    /\ lock_holders = [t \in Tables |-> {}]
    /\ \E tables \in [Runs -> Tables] :
          runs = [r \in Runs |-> ScoringRun(tables[r], "new", <<>>, 0, FALSE)]

LockParked ==
    /\ lock_holders = [t \in Tables |-> {}]
    /\ runs = <<>>

\* acquire_output_lock up to its yield: the lock file is opened and locked
\* without blocking; on BlockingIOError the RuntimeError is raised and the
\* finally clause unlocks and closes the handle of this run
AcquireOutputLock(r) ==
    /\ runs[r].place = "new"
    /\ IF CanLock(lock_holders, runs[r].table, r)
       THEN /\ lock_holders' = [lock_holders EXCEPT ![runs[r].table] = @ \cup {r}]
            /\ runs' = [runs EXCEPT ![r].place = "locked"]
       ELSE /\ lock_holders' = Unlocked(lock_holders, runs[r].table, r)
            /\ runs' = [runs EXCEPT ![r].place = "refused"]
    /\ UNCHANGED <<coreVars, chainVars, repoVars, pureVars>>

\* run_step2, line 68: the running state is written
WriteRunningState(r) ==
    /\ runs[r].place = "locked"
    /\ runs' = [runs EXCEPT ![r].place = "running", ![r].status = Append(@, "running")]
    /\ UNCHANGED lock_holders
    /\ UNCHANGED <<coreVars, chainVars, repoVars, pureVars>>

\* _score_pending_batches, one batch: a request, and its rows appended to the
\* output table
ScoreBatch(r) ==
    /\ runs[r].place = "running"
    /\ runs[r].requests < MaxRequests
    /\ runs' = [runs EXCEPT ![r].requests = @ + 1, ![r].touched = TRUE]
    /\ UNCHANGED lock_holders
    /\ UNCHANGED <<coreVars, chainVars, repoVars, pureVars>>

\* run_step2 to its end: the table is rewritten and the completed state
\* written, or an exception leaves the failed state; leaving the with block
\* unlocks and closes the handle
FinishRun(r) ==
    /\ runs[r].place = "running"
    /\ \E outcome \in {"completed", "failed"} :
          runs' = [runs EXCEPT ![r].place = outcome,
                               ![r].status = Append(@, outcome),
                               ![r].touched = @ \/ outcome = "completed"]
    /\ lock_holders' = Unlocked(lock_holders, runs[r].table, r)
    /\ UNCHANGED <<coreVars, chainVars, repoVars, pureVars>>

\* the process of a run is stopped inside the with block: its handle is closed
KillRun(r) ==
    /\ runs[r].place \in {"locked", "running"}
    /\ runs' = [runs EXCEPT ![r].place = "killed"]
    /\ lock_holders' = Unlocked(lock_holders, runs[r].table, r)
    /\ UNCHANGED <<coreVars, chainVars, repoVars, pureVars>>

\* the command of a run that ended is given again
RunAgain(r) ==
    /\ runs[r].place \in {"refused", "completed", "failed", "killed"}
    /\ runs' = [runs EXCEPT ![r] = ScoringRun(runs[r].table, "new", <<>>, 0, FALSE)]
    /\ UNCHANGED lock_holders
    /\ UNCHANGED <<coreVars, chainVars, repoVars, pureVars>>

NextLock ==
    \E r \in Runs :
        \/ AcquireOutputLock(r)
        \/ WriteRunningState(r)
        \/ ScoreBatch(r)
        \/ FinishRun(r)
        \/ KillRun(r)
        \/ RunAgain(r)

(***************************************************************************)
(* parse_transitions and validate_transition_set as calls (transitions.py) *)
(***************************************************************************)
MaxTokens == 2

DEFAULT_REBALANCE_TRANSITIONS == <<"2", ":", "1", ",", "3", ":", "2", ",", "4", ":", "3">>

\* str.split(sep) for a separator of one character
RECURSIVE SplitOn(_, _)
SplitOn(text, sep) ==
    IF \A i \in DOMAIN text : text[i] # sep THEN <<text>>
    ELSE LET at == CHOOSE i \in DOMAIN text :
                       text[i] = sep /\ \A j \in 1..(i - 1) : text[j] # sep
         IN <<SubSeq(text, 1, at - 1)>> \o SplitOn(SubSeq(text, at + 1, Len(text)), sep)

\* str.split(sep, 1) of a text that holds the separator
SplitOnce(text, sep) ==
    LET at == CHOOSE i \in DOMAIN text : text[i] = sep /\ \A j \in 1..(i - 1) : text[j] # sep
    IN <<SubSeq(text, 1, at - 1), SubSeq(text, at + 1, Len(text))>>

\* parse_transitions, the body of its loop for one token: the transition, or
\* Nothing for the ValueError of a malformed token, of int() or of the two
\* require_valid functions
ParseToken(token) ==
    LET parts == SplitOn(Strip(token), ":")
    IN IF Len(parts) # 2 THEN Nothing
       ELSE LET src == Strip(parts[1])
                to_level == ParseInt(Strip(parts[2]))
            IN IF to_level = Nothing THEN Nothing
               ELSE IF \E i \in DOMAIN src : src[i] = "-"
               THEN LET lo == ParseInt(Strip(SplitOnce(src, "-")[1]))
                        hi == ParseInt(Strip(SplitOnce(src, "-")[2]))
                    IN IF lo = Nothing \/ hi = Nothing THEN Nothing
                       ELSE IF ValidTransition(LevelTransition(lo[1], to_level[1], Some(hi[1])))
                       THEN Some(LevelTransition(lo[1], to_level[1], Some(hi[1])))
                       ELSE Nothing
               ELSE LET fr == ParseInt(src)
                    IN IF fr = Nothing THEN Nothing
                       ELSE IF ValidTransition(LevelTransition(fr[1], to_level[1], Nothing))
                       THEN Some(LevelTransition(fr[1], to_level[1], Nothing))
                       ELSE Nothing

\* the key parse_transitions sorts by
TransitionSortKey(t) ==
    <<t.from_level,
      IF t.from_level_upper = Nothing \/ t.from_level_upper = Some(0)
      THEN t.from_level ELSE t.from_level_upper[1],
      t.to_level>>

KeyBefore(a, b) ==
    \/ a[1] < b[1]
    \/ a[1] = b[1] /\ a[2] < b[2]
    \/ a[1] = b[1] /\ a[2] = b[2] /\ a[3] < b[3]

\* sorted() by that key over the values of the dict `deduped`, which are in
\* order of first appearance; the sort is stable
RECURSIVE SortedTransitions(_)
SortedTransitions(ts) ==
    IF ts = <<>> THEN <<>>
    ELSE LET first == CHOOSE i \in DOMAIN ts :
                          /\ \A j \in DOMAIN ts :
                                ~KeyBefore(TransitionSortKey(ts[j]), TransitionSortKey(ts[i]))
                          /\ \A j \in 1..(i - 1) :
                                KeyBefore(TransitionSortKey(ts[i]), TransitionSortKey(ts[j]))
         IN <<ts[first]>> \o SortedTransitions([i \in 1..(Len(ts) - 1) |->
                                                   IF i < first THEN ts[i] ELSE ts[i + 1]])

\* the values of the dict `deduped`: each transition once, at its first place
RECURSIVE Deduped(_)
Deduped(ts) ==
    IF ts = <<>> THEN <<>>
    ELSE LET front == Deduped(SubSeq(ts, 1, Len(ts) - 1))
         IN IF ts[Len(ts)] \in Range(front) THEN front ELSE Append(front, ts[Len(ts)])

\* parse_transitions: the sorted transitions, or Nothing for a ValueError
ParseTransitions(raw) ==
    LET input_text == Strip(IF raw = <<>> THEN DEFAULT_REBALANCE_TRANSITIONS ELSE raw)
        tokens == SplitOn(input_text, ",")
        out == [i \in DOMAIN tokens |-> ParseToken(tokens[i])]
    IN IF \E i \in DOMAIN out : out[i] = Nothing THEN Nothing
       ELSE LET result == SortedTransitions(Deduped([i \in DOMAIN out |-> out[i][1]]))
            IN IF ValidTransitionSet(result) THEN Some(result) ELSE Nothing

SingleToken(from_level, to_level) == NatToChars(from_level) \o <<":">> \o NatToChars(to_level)

PairToken(lo, hi, to_level) ==
    NatToChars(lo) \o <<"-">> \o NatToChars(hi) \o <<":">> \o NatToChars(to_level)

\* The tokens the raw texts are made of: every one-step downgrade and every
\* keep-and-promote split from the levels 1..5, every pair of consecutive
\* levels with either target, and tokens that are malformed or out of range.
SampleTokens ==
    UNION {{SingleToken(f, f - 1), SingleToken(f, f)} : f \in Levels}
        \cup {PairToken(lo, lo + 1, t) : lo \in 1..4, t \in 1..5}
        \cup {SingleToken(2, 3), SingleToken(6, 5), SingleToken(3, 1),
              PairToken(5, 6, 5), PairToken(2, 4, 2), PairToken(3, 2, 2), PairToken(0, 1, 1),
              <<"2">>, <<"2", ":", "1", ":", "1">>, <<" ", "3", " ", ":", " ", "2", " ">>,
              <<"-", "2", ":", "1">>, <<"2", ":", "x">>}

RECURSIVE JoinTokens(_)
JoinTokens(tokens) ==
    IF tokens = <<>> THEN <<>>
    ELSE IF Len(tokens) = 1 THEN tokens[1]
    ELSE tokens[1] \o <<",">> \o JoinTokens(Tail(tokens))

\* the raw texts: at most MaxTokens tokens with commas between them; the empty
\* text stands for the default
RawTexts ==
    {JoinTokens(tokens) : tokens \in UNION {[1..n -> SampleTokens] : n \in 0..MaxTokens}}

\* the transitions passed to validate_transition_set directly: those that the
\* dataclass can hold and the two require_valid functions accept
SampleObjects ==
    {t \in {LevelTransition(f, to, up) : f \in Levels, to \in Levels,
                                         up \in {Nothing} \cup {Some(u) : u \in Levels}} :
        ValidTransition(t)}

TransitionsInit ==
    /\ pure_out = [done |-> FALSE]
    /\ \/ \E raw \in RawTexts : pure_call = [kind |-> "parse", raw |-> raw]
       \/ \E ts \in UNION {[1..n -> SampleObjects] : n \in 0..MaxTokens} :
             pure_call = [kind |-> "validate", transitions |-> ts]

PureParked ==
    /\ pure_call = [kind |-> "none"]
    /\ pure_out = [done |-> FALSE]

\* parse_transitions(raw): the list is returned or the ValueError raised
ParseTransitionsCall ==
    /\ pure_call.kind = "parse"
    /\ ~pure_out.done
    /\ \E parsed \in {ParseTransitions(pure_call.raw)} :
          pure_out' = IF parsed = Nothing THEN [done |-> TRUE, raised |-> TRUE]
                    ELSE [done |-> TRUE, raised |-> FALSE, result |-> parsed[1]]
    /\ UNCHANGED pure_call
    /\ UNCHANGED <<coreVars, machineVars>>

\* validate_transition_set(transitions): it returns or raises the ValueError
ValidateTransitionSetCall ==
    /\ pure_call.kind = "validate"
    /\ ~pure_out.done
    /\ pure_out' = [done |-> TRUE, raised |-> ~ValidTransitionSet(pure_call.transitions)]
    /\ UNCHANGED pure_call
    /\ UNCHANGED <<coreVars, machineVars>>

NextTransitions == ParseTransitionsCall \/ ValidateTransitionSetCall

(***************************************************************************)
(* JSON repair (json_repair.py)                                            *)
(***************************************************************************)
MaxTextLen == 3

\* the string state after a character read inside a string literal
StillInString(ch, escaped) == escaped \/ ch # "\""
EscapedAfter(ch, escaped) == ~escaped /\ ch = "\\"

\* out with its trailing blanks popped
RECURSIVE PopBlanks(_)
PopBlanks(out) ==
    IF out # <<>> /\ out[Len(out)] = " " THEN PopBlanks(SubSeq(out, 1, Len(out) - 1)) ELSE out

\* str.find("\n", i), with 0 for -1; i counts from 1
NewlineFrom(text, i) ==
    IF \E j \in i..Len(text) : text[j] = "\n"
    THEN CHOOSE j \in i..Len(text) : text[j] = "\n" /\ \A k \in i..(j - 1) : text[k] # "\n"
    ELSE 0

\* _remove_line_comments from place i on
RECURSIVE RemoveLineComments(_, _, _, _, _)
RemoveLineComments(text, i, in_string, escaped, out) ==
    IF i > Len(text) THEN out
    ELSE IF in_string
    THEN RemoveLineComments(text, i + 1, StillInString(text[i], escaped),
                            EscapedAfter(text[i], escaped), Append(out, text[i]))
    ELSE IF text[i] = "\""
    THEN RemoveLineComments(text, i + 1, TRUE, escaped, Append(out, text[i]))
    ELSE IF text[i] = "/" /\ i + 1 <= Len(text) /\ text[i + 1] = "/"
    THEN IF NewlineFrom(text, i) = 0 THEN PopBlanks(out)
         ELSE RemoveLineComments(text, NewlineFrom(text, i), in_string, escaped, PopBlanks(out))
    ELSE RemoveLineComments(text, i + 1, in_string, escaped, Append(out, text[i]))

\* the dangling decimal point of line 70-72: a point after a digit that no
\* digit follows
DanglingPoint(text, i) ==
    /\ text[i] = "."
    /\ i > 1
    /\ text[i - 1] \in DigitChars
    /\ (i + 1 > Len(text) \/ text[i + 1] \notin DigitChars)

\* _fix_trailing_decimal_points from place i on
RECURSIVE FixTrailingDecimalPoints(_, _, _, _, _)
FixTrailingDecimalPoints(text, i, in_string, escaped, out) ==
    IF i > Len(text) THEN out
    ELSE IF in_string
    THEN FixTrailingDecimalPoints(text, i + 1, StillInString(text[i], escaped),
                                  EscapedAfter(text[i], escaped), Append(out, text[i]))
    ELSE IF text[i] = "\""
    THEN FixTrailingDecimalPoints(text, i + 1, TRUE, escaped, Append(out, text[i]))
    ELSE IF DanglingPoint(text, i)
    THEN FixTrailingDecimalPoints(text, i + 1, in_string, escaped, out \o <<".", "0">>)
    ELSE FixTrailingDecimalPoints(text, i + 1, in_string, escaped, Append(out, text[i]))

\* the stack with its top popped when the top is `opener`
PopIfTop(opened, opener) ==
    IF opened # <<>> /\ opened[Len(opened)] = opener THEN SubSeq(opened, 1, Len(opened) - 1) ELSE opened

\* _close_unclosed_structures, its loop: the stack of what is open at the end
RECURSIVE OpenStack(_, _, _, _, _)
OpenStack(text, i, in_string, escaped, opened) ==
    IF i > Len(text) THEN opened
    ELSE IF in_string
    THEN OpenStack(text, i + 1, StillInString(text[i], escaped), EscapedAfter(text[i], escaped),
                   IF ~escaped /\ text[i] = "\"" THEN PopIfTop(opened, "\"") ELSE opened)
    ELSE IF text[i] = "\"" THEN OpenStack(text, i + 1, TRUE, escaped, Append(opened, "\""))
    ELSE IF text[i] \in {"{", "["} THEN OpenStack(text, i + 1, in_string, escaped, Append(opened, text[i]))
    ELSE IF text[i] = "}" THEN OpenStack(text, i + 1, in_string, escaped, PopIfTop(opened, "{"))
    ELSE IF text[i] = "]" THEN OpenStack(text, i + 1, in_string, escaped, PopIfTop(opened, "["))
    ELSE OpenStack(text, i + 1, in_string, escaped, opened)

Closer(opener) == CASE opener = "{" -> "}" [] opener = "[" -> "]" [] opener = "\"" -> "\""

\* _close_unclosed_structures: the closers of the stack, last opened first
CloseUnclosedStructures(text) ==
    LET open == OpenStack(text, 1, FALSE, FALSE, <<>>)
    IN text \o [k \in 1..Len(open) |-> Closer(open[Len(open) + 1 - k])]

\* out with the comma that is held back, if one is
WithComma(out, pending_comma) == IF pending_comma THEN Append(out, ",") ELSE out

\* _remove_trailing_commas from place i on
RECURSIVE RemoveTrailingCommas(_, _, _, _, _, _)
RemoveTrailingCommas(text, i, in_string, escaped, pending_comma, out) ==
    IF i > Len(text) THEN WithComma(out, pending_comma)
    ELSE IF in_string
    THEN RemoveTrailingCommas(text, i + 1, StillInString(text[i], escaped),
                              EscapedAfter(text[i], escaped), FALSE,
                              Append(WithComma(out, pending_comma), text[i]))
    ELSE IF text[i] = "\""
    THEN RemoveTrailingCommas(text, i + 1, TRUE, escaped, FALSE,
                              Append(WithComma(out, pending_comma), text[i]))
    ELSE IF text[i] = ","
    THEN RemoveTrailingCommas(text, i + 1, in_string, escaped, TRUE, out)
    ELSE IF text[i] \in {"]", "}"}
    THEN RemoveTrailingCommas(text, i + 1, in_string, escaped, FALSE, Append(out, text[i]))
    ELSE IF IsSpace(text[i]) /\ pending_comma
    THEN RemoveTrailingCommas(text, i + 1, in_string, escaped, pending_comma, out)
    ELSE RemoveTrailingCommas(text, i + 1, in_string, escaped, FALSE,
                              Append(WithComma(out, pending_comma), text[i]))

\* repair: the four passes, each over the text the one before returned
Repair(raw) ==
    RemoveTrailingCommas(
        CloseUnclosedStructures(
            FixTrailingDecimalPoints(RemoveLineComments(raw, 1, FALSE, FALSE, <<>>),
                                     1, FALSE, FALSE, <<>>)),
        1, FALSE, FALSE, FALSE, <<>>)

\* the characters the texts are made of: those the four passes tell apart
JsonChars == {"\"", "\\", "/", "\n", " ", ",", ".", "1", "{", "}", "[", "]"}

\* the texts of at most MaxTextLen characters
JsonTexts == UNION {[1..n -> JsonChars] : n \in 0..MaxTextLen}

RepairInit ==
    /\ \E raw \in JsonTexts : pure_call = [kind |-> "repair", raw |-> raw]
    /\ pure_out = [done |-> FALSE]

\* repair(raw)
RepairCall ==
    /\ pure_call.kind = "repair"
    /\ ~pure_out.done
    /\ pure_out' = [done |-> TRUE, again |-> FALSE, once |-> Repair(pure_call.raw)]
    /\ UNCHANGED pure_call
    /\ UNCHANGED <<coreVars, machineVars>>

\* repair(x) for the text x that the call returned
RepairAgain ==
    /\ pure_call.kind = "repair"
    /\ pure_out.done
    /\ ~pure_out.again
    /\ pure_out' = [done |-> TRUE, again |-> TRUE, once |-> pure_out.once,
                    twice |-> Repair(pure_out.once)]
    /\ UNCHANGED pure_call
    /\ UNCHANGED <<coreVars, machineVars>>

NextRepair == RepairCall \/ RepairAgain

(***************************************************************************)
(* matches as a call (fuzzy_word_matcher.py)                               *)
(***************************************************************************)
MaxWordLen == 3

\* the characters of the words: a letter, a capital with a diacritic that
\* folds to it, another letter and a diacritic that folds to that one
WordChars == {"a", "A_breve", "s", "S_comma"}

WordTexts == UNION {[1..n -> WordChars] : n \in 0..MaxWordLen}

MatcherInit ==
    /\ \E expected \in WordTexts, actual \in WordTexts :
          pure_call = [kind |-> "matches", expected |-> expected, actual |-> actual]
    /\ pure_out = [done |-> FALSE]

\* matches(expected, actual)
MatchesCall ==
    /\ pure_call.kind = "matches"
    /\ ~pure_out.done
    /\ pure_out' = [done |-> TRUE, swapped |-> FALSE,
                    result |-> FuzzyMatches(pure_call.expected, pure_call.actual)]
    /\ UNCHANGED pure_call
    /\ UNCHANGED <<coreVars, machineVars>>

\* matches(actual, expected): the call with its arguments swapped
MatchesSwappedCall ==
    /\ pure_call.kind = "matches"
    /\ pure_out.done
    /\ ~pure_out.swapped
    /\ pure_out' = [done |-> TRUE, swapped |-> TRUE, result |-> pure_out.result,
                    swapped_result |-> FuzzyMatches(pure_call.actual, pure_call.expected)]
    /\ UNCHANGED pure_call
    /\ UNCHANGED <<coreVars, machineVars>>

NextMatcher == MatchesCall \/ MatchesSwappedCall

(***************************************************************************)
(* load_run_rows as a call (run_csv_repository.py)                         *)
(***************************************************************************)
MaxFileRecords == 3

\* the rows that were appended to a table, in any order, rescored words at
\* another level
AppendedRows ==
    UNION {[1..n -> {RunCsvRow(id, level) : id \in 1..MaxWordId, level \in 1..2}] :
               n \in 0..MaxFileRecords}

\* the table is missing, or is a file without a header line, or holds the
\* header and the appended rows
LoadInit ==
    /\ \/ pure_call = [kind |-> "load_run_rows", appended |-> <<>>, content |-> Nothing]
       \/ pure_call = [kind |-> "load_run_rows", appended |-> <<>>, content |-> Some(<<>>)]
       \/ \E rows \in AppendedRows :
             pure_call = [kind |-> "load_run_rows", appended |-> rows,
                          content |-> Some(TableLines(rows))]
    /\ pure_out = [done |-> FALSE]

\* load_run_rows(path)
LoadRunRowsCall ==
    /\ pure_call.kind = "load_run_rows"
    /\ ~pure_out.done
    /\ \E loaded \in {LoadRunRows(pure_call.content)} :
          pure_out' = IF loaded = Nothing THEN [done |-> TRUE, raised |-> TRUE]
                      ELSE [done |-> TRUE, raised |-> FALSE, rows |-> loaded[1]]
    /\ UNCHANGED pure_call
    /\ UNCHANGED <<coreVars, machineVars>>

NextLoad == LoadRunRowsCall

(***************************************************************************)
(* build_retry_input (tools/build_retry_input.py)                          *)
(***************************************************************************)
MaxLogLines == 2
MaxBaseRows == 2

\* a line of the failed-words log: blank, a text that json.loads rejects, a
\* JSON value that is no object, or an object; word_id is the value
\* node.get("word_id") gives, JNull when the key is absent
BlankLine == [line |-> "blank"]
BrokenLine == [line |-> "broken"]
ValueLine == [line |-> "value"]
ObjectLine(word_id) == [line |-> "object", word_id |-> word_id]

\* int(word_id) of lines 26-29: Nothing stands for the exception
IntOfJson(value) ==
    IF value.t = "int" THEN Some(value.v)
    ELSE IF value.t = "str" THEN ParseInt(value.v)
    ELSE Nothing

\* WantedIds reading the first line of the log only.
WantedIdsOfFirstLine(lines) ==
    {IntOfJson(lines[i].word_id)[1] :
        i \in {k \in DOMAIN lines : k = 1 /\ lines[k].line = "object"
                                       /\ IntOfJson(lines[k].word_id) # Nothing}}

\* lines 15-29: the set of the ids that int() could read from an object
WantedIds(lines) ==
    {IntOfJson(lines[i].word_id)[1] :
        i \in {k \in DOMAIN lines : lines[k].line = "object"
                                       /\ IntOfJson(lines[k].word_id) # Nothing}}

\* a base table: its headers and its records, each the cells by header
BaseTable(headers, records) == [headers |-> headers, records |-> records]

\* lines 41-47: the records whose word_id cell int() reads as a wanted id
RECURSIVE RetryRows(_, _)
RetryRows(records, wanted_ids) ==
    IF records = <<>> THEN <<>>
    ELSE LET word_id == ParseInt(Head(records).word_id)
             rest == RetryRows(Tail(records), wanted_ids)
         IN IF word_id # Nothing /\ word_id[1] \in wanted_ids
            THEN <<Head(records)>> \o rest
            ELSE rest

\* build_retry_input: what it raised, or the table it wrote and the count it
\* returned
BuildRetryInput(log, base) ==
    IF log = Nothing \/ base = Nothing THEN [raised |-> "FileNotFoundError"]
    ELSE IF \E i \in DOMAIN log[1] : log[1][i].line = "value" THEN [raised |-> "AttributeError"]
    ELSE IF base[1].records = <<>>
    THEN [raised |-> "none", headers |-> base[1].headers, rows |-> <<>>, count |-> 0]
    ELSE IF "word_id" \notin Range(base[1].headers) THEN [raised |-> "ValueError"]
    ELSE LET rows == RetryRows(base[1].records, WantedIds(log[1]))
         IN [raised |-> "none", headers |-> base[1].headers, rows |-> rows, count |-> Len(rows)]

\* the lines of a log: written by _log_failed_word with an int id, or edited:
\* an id as text, an id that is no number, no id, a broken line, a blank one,
\* a value without keys (line 25 raises on it)
SampleLines ==
    <<ObjectLine(JInt(2)), ObjectLine(JInt(4)), ObjectLine(JStr(<<"2">>)),
      ObjectLine(JStr(<<"b", "a", "d">>)), ObjectLine(JNull), BrokenLine, BlankLine,
      ValueLine>>

\* the records of a base table: the word tells the records apart
SampleRecords ==
    {[word_id |-> <<"1">>, word |-> "unu"], [word_id |-> <<"2">>, word |-> "doi"],
     [word_id |-> <<"2">>, word |-> "doi_bis"], [word_id |-> <<"4">>, word |-> "patru"],
     [word_id |-> <<"x">>, word |-> "fara"]}

RetryInit ==
    /\ \E idx \in IndexSeqs(SampleLines, MaxLogLines),
          headers \in {<<"word_id", "word">>, <<"id", "word">>},
          records \in UNION {[1..n -> SampleRecords] : n \in 0..MaxBaseRows},
          missing \in {"none", "log", "base"} :
          /\ missing # "none" => (idx = <<>> /\ records = <<>> /\ headers[1] = "word_id")
          /\ pure_call = [kind |-> "build_retry_input",
                          log |-> IF missing = "log" THEN Nothing
                                  ELSE Some(Pick(SampleLines, idx)),
                          base |-> IF missing = "base" THEN Nothing
                                   ELSE Some(BaseTable(headers, records))]
    /\ pure_out = [done |-> FALSE]

\* build_retry_input(failed_jsonl, base_csv, output_csv, repo)
BuildRetryInputCall ==
    /\ pure_call.kind = "build_retry_input"
    /\ ~pure_out.done
    /\ pure_out' = [done |-> TRUE, built |-> BuildRetryInput(pure_call.log, pure_call.base)]
    /\ UNCHANGED pure_call
    /\ UNCHANGED <<coreVars, machineVars>>

NextRetry == BuildRetryInputCall

(***************************************************************************)
(* The bisection of a selection node as a call (lm/client.py, 190-208)     *)
(***************************************************************************)
MaxSplitSize == 16

\* a node of n words of which e are wanted, 0 < e < n, whose loop and repair
\* gave nothing
SplitInit ==
    /\ \E n \in 2..MaxSplitSize : \E e \in 1..(n - 1) :
          pure_call = [kind |-> "split", n |-> n, e |-> e]
    /\ pure_out = [done |-> FALSE]

\* _score_batch_resilient_internal, lines 190-208: the two nodes of the halves
SplitCall ==
    /\ pure_call.kind = "split"
    /\ ~pure_out.done
    /\ \E o \in {SplitOrFail(Context(1, FALSE, "selected_word_ids", Some(pure_call.e), Some(1),
                                     "openai_compat", TRUE),
                             <<Frame(ClientBatch(pure_call.n), Some(pure_call.e), 0)>>,
                             <<>>, <<>>)} :
          pure_out' = [done |-> TRUE, left |-> o.stack[1], right |-> o.stack[2],
                       rest |-> Len(o.stack) - 2]
    /\ UNCHANGED pure_call
    /\ UNCHANGED <<coreVars, machineVars>>

NextSplit == SplitCall

MachinesParked == ChainParked /\ RepoParked /\ LockParked

ToolsParked == MachinesParked /\ PureParked

(***************************************************************************)
(* The specifications                                                      *)
(***************************************************************************)
NextClient == StartCall \/ EnterNode \/ Attempt

InitRefused == RefusedInit /\ AdapterParked /\ ParserParked /\ RebalanceParked /\ ToolsParked
SpecRefused == InitRefused /\ [][NextClient]_vars

NextPending == SubmitBatch \/ EnterNode \/ Attempt
InitPending == PendingInit /\ AdapterParked /\ ParserParked /\ RebalanceParked /\ ToolsParked
SpecPending == InitPending /\ [][NextPending]_vars

InitClient == ClientInit /\ AdapterParked /\ ParserParked /\ RebalanceParked /\ ToolsParked
Spec == InitClient /\ [][NextClient]_vars

InitParser == ParserInit /\ AdapterParked /\ ClientParked /\ RebalanceParked /\ ToolsParked
SpecParser == InitParser /\ [][ParseCall]_vars

InitAdapter == AdapterInit /\ ParserParked /\ ClientParked /\ RebalanceParked /\ ToolsParked
SpecAdapter == InitAdapter /\ [][RecordOutcome]_vars

InitRebalance == RebalanceInit /\ AdapterParked /\ ParserParked /\ ClientParked /\ ToolsParked
SpecRebalance == InitRebalance /\ [][NextRebalance]_vars

CoreParked == AdapterParked /\ ParserParked /\ ClientParked /\ RebalanceParked

InitSplit == SplitInit /\ CoreParked /\ MachinesParked
SpecSplit == InitSplit /\ [][NextSplit]_vars

InitRetry == RetryInit /\ CoreParked /\ MachinesParked
SpecRetry == InitRetry /\ [][NextRetry]_vars

InitLoad == LoadInit /\ CoreParked /\ MachinesParked
SpecLoad == InitLoad /\ [][NextLoad]_vars

InitMatcher == MatcherInit /\ CoreParked /\ MachinesParked
SpecMatcher == InitMatcher /\ [][NextMatcher]_vars

InitRepair == RepairInit /\ CoreParked /\ MachinesParked
SpecRepair == InitRepair /\ [][NextRepair]_vars

InitTransitions == TransitionsInit /\ CoreParked /\ MachinesParked
SpecTransitions == InitTransitions /\ [][NextTransitions]_vars

InitLock == LockInit /\ CoreParked /\ ChainParked /\ RepoParked /\ PureParked
SpecLock == InitLock /\ [][NextLock]_vars

InitRepo == RepoInit /\ CoreParked /\ ChainParked /\ LockParked /\ PureParked
SpecRepo == InitRepo /\ [][NextRepo]_vars

InitChain == ChainInit /\ CoreParked /\ RepoParked /\ LockParked /\ PureParked
SpecChain == InitChain /\ [][NextChain]_vars

\* the rebalance run with its restarts; which words a run may process does
\* not depend on the share it assigns, so one ratio is run
InitResume == InitRebalance /\ options.lower_ratio = <<1, 2>>
SpecResume == InitResume /\ [][NextResume]_vars

\* The two places a selection is decided, side by side: a run is either a
\* client taking calls or a rebalance run.
InitSelection == InitClient \/ InitRebalance
NextSelectionSides == NextClient \/ NextRebalance
SpecSelection == InitSelection /\ [][NextSelectionSides]_vars

(***************************************************************************)
(* Claims about the adapter                                                *)
(***************************************************************************)
\* C8: after construction and after any sequence of record_outcome calls the
\* recommended size lies between min_size and initial_size.
C8_SizeWithinBounds == min_size <= current_size /\ current_size <= initial_size

\* C8 witness: the size was shrunk down to the floor and later grown back to
\* the ceiling.
C8_Witness ==
    /\ min_size < initial_size
    /\ current_size = initial_size
    /\ \E i \in DOMAIN trail : trail[i].size = min_size

FiveGood == Len(trail) = TrailLen /\ \A i \in DOMAIN trail : trail[i].ok
\* An outcome with ratio < 0.5 is a failure (below 0.9); record_outcome keeps
\* nothing else of the ratio, so a run of failures is a run of such outcomes.
FiveLow == Len(trail) = TrailLen /\ \A i \in DOMAIN trail : ~trail[i].ok

SelectionCall == pMode = "selected_word_ids" /\ pOut.kind \in {"ok", "error"}
FullCall == pMode = "score_results" /\ pOut.kind \in {"ok", "error"}

\* the results array is [n]
ResultsAreInt(results, n) ==
    Len(results) = 1 /\ results[1].t = "int" /\ results[1].v = n

\* the node is an object whose word_id is the integer id
NamesWordId(node, id) ==
    node.t = "dict" /\ node.v.word_id.t = "int" /\ node.v.word_id.v = id

\* the three worked cases on a batch of two rows
SelectionExamples ==
    (SelectionCall /\ Len(pBatch) = 2 /\ pForced = Some(1)) =>
        /\ (ResultsAreInt(pResults, 1) /\ pExpected = Some(1)) =>
              /\ pOut.kind = "ok"
              /\ pOut.scores = <<ScoreOf(pBatch[1], 1)>>
        /\ (ResultsAreInt(pResults, 999) /\ pExpected = Some(1)) => pOut.kind = "error"
        /\ (ResultsAreInt(pResults, 1) /\ pExpected = Some(2)) => pOut.kind = "error"

C6_ScoresAndUnresolvedPartitionBatch ==
    (FullCall /\ pOut.kind = "ok") =>
        LET scoredIds == {pOut.scores[i].word_id : i \in DOMAIN pOut.scores}
            openIds == {pOut.unresolved[i].word_id : i \in DOMAIN pOut.unresolved}
        IN /\ Cardinality(scoredIds) = Len(pOut.scores)
           /\ Cardinality(openIds) = Len(pOut.unresolved)
           /\ scoredIds \cap openIds = {}
           /\ scoredIds \cup openIds = {pBatch[i].word_id : i \in DOMAIN pBatch}
           /\ \A i \in DOMAIN pOut.unresolved : pOut.unresolved[i] \in Range(pBatch)

\* a response that names the same row twice, on a batch with a second row
C6_Witness ==
    /\ FullCall /\ pOut.kind = "ok"
    /\ Len(pBatch) = 2 /\ Len(pResults) = 2
    /\ NamesWordId(pResults[1], pBatch[1].word_id)
    /\ NamesWordId(pResults[2], pBatch[1].word_id)
    /\ Len(pOut.scores) = 1 /\ Len(pOut.unresolved) = 1

\* the node, taken alone, matches a row of the untouched batch
NodeMatchesBatch(node, batch) ==
    LET cand == ParseScoreCandidate(node)
    IN /\ cand # Nothing
       /\ MatchCandidate(cand[1], BatchById(batch), BuildQueues(batch)).row # Nothing

\* C7: in full-classification mode a non-empty results array none of whose
\* nodes matches a row of a non-empty batch makes the parser raise; it never
\* returns an empty score list with the whole batch unresolved.
C7_NoMatchRaises ==
    /\ (/\ FullCall /\ pBatch # <<>> /\ pResults # <<>>
        /\ \A i \in DOMAIN pResults : ~NodeMatchesBatch(pResults[i], pBatch)) =>
          /\ pOut.kind = "error"
          /\ pOut.error = "no_valid_results"
    /\ (FullCall /\ pBatch # <<>> /\ pOut.kind = "ok") => pOut.scores # <<>>

C7_Witness ==
    /\ FullCall /\ Len(pBatch) = 2 /\ Len(pResults) = 2
    /\ \A i \in DOMAIN pResults :
          /\ pResults[i].t = "dict"
          /\ ~NodeMatchesBatch(pResults[i], pBatch)
    /\ pOut.kind = "error" /\ pOut.nodes = 2

(***************************************************************************)
(* Claims about the resilient scoring engine (Spec)                        *)
(***************************************************************************)
\* C1 as stated: the call raises only when every attempt of the retry loop of
\* some node failed with a connectivity or timeout error; a response whose
\* content is malformed is absorbed.
C1_RaisesOnlyOnConnectivity ==
    raisedBy.raised => raisedBy.genuine

FullNoPartial == ctx.output_mode = "score_results" /\ ~ctx.allow_partial_results

TimesScored(id) == Cardinality({i \in DOMAIN callResults : callResults[i].word_id = id})
TimesFailed(id) == Cardinality({i \in DOMAIN failedLog : failedLog[i].word_id = id})

\* C2: when the call returns in full-classification mode with partial results
\* disallowed, every word of the batch is either scored exactly once and not
\* logged, or logged as failed (batch_failed_after_retries or
\* max_recursion_depth_exceeded) and not scored; nothing else is returned.
C2_EveryWordAccountedOnce ==
    (pc = "returned" /\ FullNoPartial) =>
        /\ \A i \in DOMAIN callBatch :
              \/ TimesScored(callBatch[i].word_id) = 1 /\ TimesFailed(callBatch[i].word_id) = 0
              \/ TimesScored(callBatch[i].word_id) = 0 /\ TimesFailed(callBatch[i].word_id) = 1
        /\ \A i \in DOMAIN callResults : callResults[i] \in
              {ScoreOf(callBatch[j], callResults[i].rarity_level) : j \in DOMAIN callBatch}
        /\ \A i \in DOMAIN failedLog :
              failedLog[i].error \in {"batch_failed_after_retries",
                                      "max_recursion_depth_exceeded"}

\* a call that scored one word in a retry of the remainder and gave up another
C2_Witness ==
    /\ pc = "returned" /\ FullNoPartial
    /\ Len(callBatch) >= 3
    /\ callResults # <<>> /\ failedLog # <<>>
    /\ maxRequestDepth >= 1

DepthLines(batch) ==
    [i \in DOMAIN batch |-> FailedLine(batch[i], "max_recursion_depth_exceeded")]

\* a node at the depth limit is entered: its words are logged, nothing else
AtLimitOnlyLogs ==
    (pc = "enter" /\ stack # <<>> /\ Head(stack).depth >= MAX_RECURSION_DEPTH) =>
        /\ failedLog' = failedLog \o DepthLines(Head(stack).batch)
        /\ callResults' = callResults
        /\ stack' = Tail(stack)
        /\ maxRequestDepth' = maxRequestDepth

\* C3: no request is ever sent for a node at depth 10 or deeper, no node lies
\* deeper than 10, and a node that reaches depth 10 has every word written to
\* the failed log and contributes no result.
C3_DepthBounded ==
    /\ [](/\ maxRequestDepth < MAX_RECURSION_DEPTH
          /\ \A i \in DOMAIN stack : stack[i].depth <= MAX_RECURSION_DEPTH)
    /\ [][AtLimitOnlyLogs]_vars

\* a node of two words was stopped at the limit after a request at depth 9
C3_Witness ==
    /\ maxRequestDepth = MAX_RECURSION_DEPTH - 1
    /\ Cardinality({i \in DOMAIN failedLog :
                       failedLog[i].error = "max_recursion_depth_exceeded"}) = 2
    /\ Len(callResults) = MAX_RECURSION_DEPTH

FormatRank(mode) ==
    IF mode = "json_object" THEN 0 ELSE IF mode = "json_schema" THEN 1 ELSE 2

CapabilityNarrows ==
    /\ FormatRank(capability_state'.response_format_mode)
          >= FormatRank(capability_state.response_format_mode)
    /\ capability_state'.reasoning_controls_supported
          => capability_state.reasoning_controls_supported

\* a call starts with the state the calls before it left
CallKeepsCapability ==
    (pc \in {"idle", "returned", "raised"}) => capability_state' = capability_state

\* an OpenAI-compatible request is built from the state of the client
RequestsFollowCapability ==
    (pc = "loop" /\ ctx.flavor = "openai_compat") =>
        /\ loop.response_format_mode = capability_state.response_format_mode
        /\ loop.include_reasoning_controls =
              (ctx.has_reasoning_controls /\ capability_state.reasoning_controls_supported)

\* C4: the response-format mode moves only json-object -> json-schema -> none
\* or json-object -> none, reasoning support is never regained, and what one
\* call learned is what the next call and its requests start with.
C4_CapabilityOnlyNarrows ==
    /\ []RequestsFollowCapability
    /\ [][CapabilityNarrows /\ CallKeepsCapability]_vars

\* a later retry loop starting with both capabilities already given up
C4_Witness ==
    /\ pc = "loop" /\ loop.attempt = 0 /\ ~loop.repair
    /\ ctx.flavor = "openai_compat"
    /\ capability_state = Capability("none", FALSE)
    /\ loop.response_format_mode = "none" /\ ~loop.include_reasoning_controls

(***************************************************************************)
(* Claims about the batch loop of a rebalance transition                   *)
(***************************************************************************)
\* the places of the batches drawn so far: batch number and position in it
DrawnPlaces == UNION {{<<i, k>> : k \in DOMAIN drawn[i].batch} : i \in DOMAIN drawn}

WordAt(place) == drawn[place[1]].batch[place[2]]

TimesDrawn(word_id) == Cardinality({place \in DrawnPlaces : WordAt(place) = word_id})

Queued == UNION {Range(remaining_by_source[level]) : level \in DOMAIN remaining_by_source}

\* the last transition entered has returned its summary
TransitionReturned == rpc \in {"run", "written"} /\ summaries # <<>>

\* a pass of the loop breaks out of it exactly when nothing is queued
BreaksOnlyOnEmptyPool ==
    (rpc = "loop" /\ options.batch_size >= 1) => ((rpc' = "run") <=> (PoolSize = 0))

DrawnWithoutReplacement ==
    (options.batch_size >= 1 /\ rpc # "parked") =>
        \* no word is in two batches or twice in one, and only eligible words are drawn
        /\ \A p, q \in DrawnPlaces : p # q => WordAt(p) # WordAt(q)
        /\ \A p \in DrawnPlaces : WordAt(p) \in eligible_ids
        \* each batch is as large as the batch size and the pool it met allow
        /\ \A i \in DOMAIN drawn :
              Len(drawn[i].batch) = Min2(options.batch_size, drawn[i].pool_before)
        \* an eligible word is queued or drawn, never both
        /\ \A w \in eligible_ids : (w \in Queued) <=> (TimesDrawn(w) = 0)
        \* while the loop runs it has a batch to draw exactly when words are queued
        /\ rpc = "loop" => ((NextSelection.batch = <<>>) <=> (PoolSize = 0))
        \* once the transition has returned every eligible word was drawn once
        /\ TransitionReturned =>
              /\ PoolSize = 0
              /\ \A w \in eligible_ids : TimesDrawn(w) = 1

\* C10: within one rebalance transition with a batch size of at least 1 the
\* batches are drawn without replacement: no word appears in two batches, each
\* batch has min(batch_size, words remaining) words, every word that was
\* unprocessed and at a source level when the transition started is in exactly
\* one batch when the transition returns, and the loop ends exactly when the
\* pool is empty.
C10_BatchesDrawnWithoutReplacement ==
    []DrawnWithoutReplacement /\ [][BreaksOnlyOnEmptyPool]_vars

\* C10 witness: a pair transition over a pool of one word at the lower level
\* and three at the upper, batch size 2, has returned after two full batches,
\* the second filled from the upper level alone.
C10_Witness ==
    /\ rpc = "written"
    /\ options.batch_size = 2
    /\ Len(options.transitions) = 1
    /\ Len(SourceLevels(options.transitions[1])) = 2
    /\ initial_source_counts = (2 :> 1 @@ 3 :> 3)
    /\ Len(drawn) = 2
    /\ \A i \in DOMAIN drawn : Len(drawn[i].batch) = 2
    /\ Len(checkpoint) = 2
    /\ eligible_ids = Words

(***************************************************************************)
(* Claims about the target count, the abort and the trivial batches        *)
(***************************************************************************)
\* the transition that returned last
ReturnedTransition == options.transitions[transition_index - 1]

\* the eligible words of that transition now at its target level
AtTargetLevel == {w \in eligible_ids : runtime.levels_by_id[w] = ReturnedTransition.to_level}

\* C11: when a transition that ran without interruption and whose selections
\* all succeeded returns after its last batch, the words it assigned to the
\* target level number round(eligible_count * lower_ratio), whatever the
\* batch size: both the counter of the summary and the words now at that level.
C11_TargetCountIsRoundedShare ==
    (TransitionReturned /\ drawn # <<>>) =>
        /\ summaries[Len(summaries)].target_assigned =
              RoundRatio(Cardinality(eligible_ids), options.lower_ratio)
        /\ Cardinality(AtTargetLevel) =
              RoundRatio(Cardinality(eligible_ids), options.lower_ratio)

\* C11 witness: four eligible words, ratio 1/2, batches of one word, so that
\* round meets the ties 0.5 and 1.5 on the way; two words end at the target.
C11_Witness ==
    /\ TransitionReturned
    /\ options.lower_ratio = <<1, 2>>
    /\ options.batch_size = 1
    /\ Len(drawn) = 4
    /\ Cardinality(eligible_ids) = 4
    /\ Cardinality(AtTargetLevel) = 2

\* the call of the scoring engine made last
LastCall == scoring_calls[Len(scoring_calls)]

\* the engine came back with a number of selected words other than the one asked
CountMismatch(call) ==
    /\ ~call.scored.raised
    /\ Cardinality(call.scored.ids \cap Range(call.batch)) # call.expected_json_items

\* a step in which the engine was called
CallMade == Len(scoring_calls') = Len(scoring_calls) + 1

\* the step of a mismatching call raises and applies nothing
MismatchAborts ==
    (CallMade /\ CountMismatch(scoring_calls'[Len(scoring_calls')])) =>
        /\ rpc' = "raised"
        /\ runtime' = runtime
        /\ checkpoint' = checkpoint
        /\ summaries' = summaries

\* after the raise nothing is written
NothingAfterRaise == rpc = "raised" => (rpc' = "raised" /\ runtime' = runtime /\ checkpoint' = checkpoint)

\* the batch of a mismatching call stays as it was drawn
MismatchedBatchUntouched ==
    (rpc = "raised" /\ scoring_calls # <<>> /\ CountMismatch(LastCall)) =>
        /\ LastCall.batch = drawn[Len(drawn)].batch
        /\ \A w \in Range(LastCall.batch) :
              /\ w \notin runtime.processed_word_ids
              /\ runtime.levels_by_id[w] \in Range(SourceLevels(options.transitions[transition_index]))
              /\ runtime.rebalance_rules[w] = Nothing
        /\ \A i \in DOMAIN checkpoint :
              Range(checkpoint[i].processed_word_ids) \cap Range(LastCall.batch) = {}

\* C12: when the scoring engine returns a number of selected words different
\* from the common count the batch requires, the transition aborts with an
\* error before any level of the batch is changed, before any of its words is
\* marked processed, without a checkpoint record for the batch, and the output
\* table is never written.
C12_MismatchAbortsBeforeAnyChange ==
    []MismatchedBatchUntouched /\ [][MismatchAborts /\ NothingAfterRaise]_vars

\* C12 witness: a second batch whose call came back with one word too many
\* after a first batch was applied and checkpointed.
C12_Witness ==
    /\ rpc = "raised"
    /\ scoring_calls # <<>>
    /\ CountMismatch(LastCall)
    /\ Cardinality(LastCall.scored.ids) > LastCall.expected_json_items
    /\ Len(checkpoint) = 1
    /\ Len(drawn) = 2

\* the common count _apply_transition requires of a batch of the given size,
\* from the counters before the batch
RequiredCommonCount(size) ==
    LET transition == options.transitions[transition_index]
        common_level == Min2(transition.to_level, OtherLevel(transition))
        target_count == ComputeAdaptiveTargetCount(counters.processed, counters.target_assigned,
                                                   size, options.lower_ratio,
                                                   counters.expected_target_total)
    IN IF transition.to_level = common_level THEN target_count ELSE size - target_count

\* a batch whose common count is none or all of it is assigned in its own
\* step without a call of the engine
TrivialBatchNeedsNoCall ==
    (rpc = "loop" /\ Len(drawn') = Len(drawn) + 1) =>
        LET batch == drawn'[Len(drawn')].batch
            transition == options.transitions[transition_index]
            common_level == Min2(transition.to_level, OtherLevel(transition))
            rare_level == Max2(transition.to_level, OtherLevel(transition))
            count == RequiredCommonCount(Len(batch))
        IN (count = 0 \/ count = Len(batch)) =>
              /\ scoring_calls' = scoring_calls
              /\ rpc' = "loop"
              /\ Len(checkpoint') = Len(checkpoint) + 1
              /\ \A w \in Range(batch) :
                    runtime'.levels_by_id[w] = (IF count = 0 THEN rare_level ELSE common_level)

\* a selection node of the engine whose expected count is none or all of its
\* rows is resolved on entry: no retry loop, no request, nothing logged
TrivialNodeNeedsNoRequest ==
    (/\ pc = "enter" /\ stack # <<>>
     /\ ctx.output_mode = "selected_word_ids"
     /\ ~DepthExceeded(Head(stack).depth)
     /\ Head(stack).expected # Nothing /\ ctx.forced_rarity_level # Nothing
     /\ (Head(stack).expected[1] <= 0 \/ Head(stack).expected[1] >= Len(Head(stack).batch))) =>
        LET node == Head(stack)
        IN /\ pc' = "enter"
           /\ stack' = Tail(stack)
           /\ failedLog' = failedLog
           /\ maxRequestDepth' = maxRequestDepth
           /\ faults' = faults
           /\ capability_state' = capability_state
           /\ callResults' = callResults \o
                 (IF node.expected[1] <= 0 THEN <<>>
                  ELSE [i \in DOMAIN node.batch |->
                           ScoreOf(node.batch[i], ctx.forced_rarity_level[1])])

TrivialNodeSeen ==
    /\ pc = "returned"
    /\ ctx.output_mode = "selected_word_ids"
    /\ callResults # <<>>
    /\ maxRequestDepth = -1

\* a step of the loop that applied the assignments of a batch
BatchApplied == rpc = "loop" /\ rpc' = "loop" /\ Len(drawn') = Len(drawn) + 1

\* the words of a batch whose level differs between two assignments of levels
Changed(batch, before, after) == {w \in Range(batch) : before[w] # after[w]}

\* the record is the one of the batch: all its word ids in batch order, and
\* the changed words in batch order, each with its new level and its rule
RecordOfBatch(record, batch, before, after) ==
    /\ record.processed_word_ids = batch
    /\ {record.switched[i].word_id : i \in DOMAIN record.switched} = Changed(batch, before.levels_by_id, after.levels_by_id)
    /\ Len(record.switched) = Cardinality(Changed(batch, before.levels_by_id, after.levels_by_id))
    /\ \A i \in DOMAIN record.switched :
          /\ record.switched[i].new_level = after.levels_by_id[record.switched[i].word_id]
          /\ Some(record.switched[i].rule) = after.rebalance_rules[record.switched[i].word_id]

\* an applied batch appends its one record, in the step that applies it; no
\* other step touches the log
OneRecordPerAppliedBatch ==
    IF BatchApplied
    THEN /\ Len(checkpoint') = Len(checkpoint) + 1
         /\ SubSeq(checkpoint', 1, Len(checkpoint)) = checkpoint
         /\ RecordOfBatch(checkpoint'[Len(checkpoint')], drawn'[Len(drawn')].batch, runtime, runtime')
    ELSE checkpoint' = checkpoint

\* the batches of the running transition that were applied: all those drawn,
\* but the last one when its selection raised
AppliedCount == IF rpc = "raised" THEN Len(drawn) - 1 ELSE Len(drawn)

\* whenever a batch can be drawn, the records of the batches applied so far in
\* this transition are the last ones of the log, in the order of the batches
RecordsFollowBatches ==
    rpc \in {"loop", "raised"} =>
        /\ Len(checkpoint) >= AppliedCount
        /\ \A i \in 1..AppliedCount :
              checkpoint[Len(checkpoint) - AppliedCount + i].processed_word_ids = drawn[i].batch

\* C14: every applied batch appends exactly one checkpoint record, holding all
\* the word ids of the batch and the words whose level changed with their new
\* level and rule; the record is in the log once the assignments are applied
\* and before the next batch is drawn, so the records follow the order of the
\* batches; records already written are never rewritten or removed.
C14_OneCheckpointRecordPerBatch ==
    []RecordsFollowBatches /\ [][OneRecordPerAppliedBatch]_vars

\* two batches of two words applied one after the other, one word of each
\* switched
C14_Witness ==
    /\ rpc = "loop"
    /\ Len(drawn) = 2
    /\ Len(checkpoint) = 2
    /\ \A i \in 1..2 :
          /\ checkpoint[i].processed_word_ids = drawn[i].batch
          /\ Len(checkpoint[i].processed_word_ids) = 2
          /\ Len(checkpoint[i].switched) = 1

\* the word ids the checkpoint log records as processed
LoggedIds == UNION {Range(checkpoint[i].processed_word_ids) : i \in DOMAIN checkpoint}

\* a step that draws a batch draws none of the logged words
DrawsNoLoggedWord ==
    Len(drawn') = Len(drawn) + 1 => Range(drawn'[Len(drawn')].batch) \cap LoggedIds = {}

\* a step that calls the engine sends none of the logged words
SendsNoLoggedWord ==
    CallMade => Range(scoring_calls'[Len(scoring_calls')].batch) \cap LoggedIds = {}

\* no logged word waits in the pools of a transition
QueuesNoLoggedWord == rpc = "loop" => Queued \cap LoggedIds = {}

\* C15: after a restart at any point, a word id the checkpoint log records as
\* processed is never placed in a new batch nor sent to the endpoint again,
\* in the interrupted transition or in a later one; only the words not yet in
\* the log are processed.
C15_CheckpointedWordsNotReprocessed ==
    []QueuesNoLoggedWord /\ [][DrawsNoLoggedWord /\ SendsNoLoggedWord]_vars

\* a run restarted after a logged batch of two words, one of them switched,
\* has drawn the two other words of the interrupted transition, sent them to
\* the engine and logged them
C15_Witness ==
    /\ resume_stats = Step5ResumeStats(1, 2, 1)
    /\ transition_index = 1
    /\ Len(drawn) = 1
    /\ Len(scoring_calls) = 1
    /\ Len(checkpoint) = 2
    /\ Range(drawn[1].batch) \cap Range(checkpoint[1].processed_word_ids) = {}

(***************************************************************************)
(* Claims about the chained campaign (SpecChain)                           *)
(***************************************************************************)
\* a step of the campaign in which run_step5 was called
EngineInvoked == Len(engine_runs') = Len(engine_runs) + 1

\* the steps are run in order, each on the output of the step before it: the
\* first on the input table or on the output of the last completed step
StepsRunInOrder ==
    EngineInvoked =>
        LET run == engine_runs'[Len(engine_runs')]
        IN /\ run.step \in 1..ChainSteps
           /\ run.transition = ChainTransition(run.step)
           /\ run.input_csv = run.step - 1
           /\ run.output_csv = run.step
           /\ run.input_csv # 0 => run.input_csv \in step_outputs
           /\ engine_runs # <<>> => run.step = engine_runs[Len(engine_runs)].step + 1

\* a step that moves the loop on moves it by one step
LoopAdvancesByOne ==
    (cpc = "loop" /\ cpc' = "loop" /\ step_idx' # step_idx) => step_idx' = step_idx + 1

\* a step that completes is recorded with its output, and the record never
\* goes back
StateFileRecordsProgress ==
    /\ (EngineInvoked /\ cpc' = "loop") =>
           state_file' = Some(StateRecord(step_idx, step_idx)) /\ step_idx \in step_outputs'
    /\ (state_file # Nothing /\ state_file' # state_file) =>
           /\ state_file' # Nothing
           /\ state_file'[1].last_completed_step >= state_file[1].last_completed_step
           /\ state_file'[1].current_csv = state_file'[1].last_completed_step

\* on resume the pass of the loop for a step up to the recorded one goes
\* without run_step5, and stops the campaign when the step's output is missing
RecordedStepsSkipped ==
    (cpc = "loop" /\ cpc' # "start" /\ chain_resume /\ state_file # Nothing
        /\ step_idx <= state_file[1].last_completed_step) =>
        /\ ~EngineInvoked
        /\ UNCHANGED <<state_file, step_outputs>>
        /\ step_idx \notin step_outputs => cpc' = "aborted"
        /\ step_idx \in step_outputs => cpc' = "loop" /\ step_idx' = step_idx + 1

\* a resumed run takes the recorded step as its last completed one
ResumeReadsRecord ==
    (cpc = "start" /\ chain_resume /\ state_file # Nothing) =>
        last_completed' = state_file[1].last_completed_step

ChainAbortedOnMissingOutput ==
    /\ cpc = "aborted"
    /\ chain_resume
    /\ state_file # Nothing
    /\ step_idx < last_completed
    /\ step_idx \notin step_outputs
    /\ engine_runs = <<>>

\* the campaign ran all its steps in one go
ChainRanAllSteps == cpc = "finished" /\ Len(engine_runs) = ChainSteps

(***************************************************************************)
(* Claims about the run table (SpecRepo)                                   *)
(***************************************************************************)
\* the ids a readable table holds
IdsOf(content) ==
    IF LoadRunRows(content) = Nothing THEN {}
    ELSE {LoadRunRows(content)[1][i].word_id : i \in DOMAIN LoadRunRows(content)[1]}

\* the ids of the rows of the call
CallIds == {in_memory_rows[i].word_id : i \in DOMAIN in_memory_rows}

\* the ids the merged table has: those of the file and those of the call
MergedIds == IdsOf(fs["out.csv"]) \cup CallIds

\* the three conditions of the guard, on the ids of a merged table
FewerRows(ids) == Cardinality(ids) < baseline.count
MinIdAbove(ids) == baseline.min_id # Nothing /\ ids # {} /\ \A id \in ids : id > baseline.min_id[1]
MaxIdBelow(ids) == baseline.max_id # Nothing /\ ids # {} /\ \A id \in ids : id < baseline.max_id[1]

\* the call raises exactly when one of the conditions holds; when it raises
\* no file is touched, else the write begins
GuardDecides ==
    (wpc = "idle" /\ fs["out.csv"] # Some(<<>>)) =>
        \E ids \in {MergedIds} :
            IF FewerRows(ids) \/ MinIdAbove(ids) \/ MaxIdBelow(ids)
            THEN wpc' = "raised" /\ fs' = fs
            ELSE wpc' = "writing" /\ fs'["out.csv"] = fs["out.csv"]

\* after the raise the table is the one the call found
RaisedLeavesTable == wpc = "raised" => fs["out.csv"] = job[1].old

\* the target changes only in a call that passed the guard
RewriteOnlyUnguarded ==
    fs'["out.csv"] # fs["out.csv"] =>
        /\ wpc = "writing"
        /\ job # Nothing /\ job[1].new # Nothing
        /\ ~Shrunk(LoadRunRows(job[1].new)[1], baseline)

\* C17: merge_and_rewrite_atomic raises and leaves the existing table
\* unchanged whenever the merged table has fewer rows than baseline.count, a
\* smallest id above baseline.min_id or a largest id below baseline.max_id;
\* the table is rewritten only when none of the three holds.
C17_GuardedRewrite ==
    []RaisedLeavesTable /\ [][GuardDecides /\ RewriteOnlyUnguarded]_vars

\* a call raised on the largest id alone: as many rows as the baseline, the
\* smallest id in place, the largest one gone
C17_Witness ==
    /\ wpc = "raised"
    /\ baseline = [count |-> 2, min_id |-> Some(1), max_id |-> Some(3)]
    /\ MergedIds = {1, 2}
    /\ fs["out.csv"] # Nothing
    /\ in_memory_rows # <<>>

\* the row of the written table with an id
WrittenRow(id) ==
    CHOOSE r \in Range(LoadRunRows(fs["out.csv"])[1]) : r.word_id = id

\* the last row of the call with an id
LastCallRow(id) ==
    in_memory_rows[CHOOSE k \in DOMAIN in_memory_rows :
        /\ in_memory_rows[k].word_id = id
        /\ \A j \in DOMAIN in_memory_rows : in_memory_rows[j].word_id = id => j <= k]

\* the written table: the ids of the file and of the call, one line per id,
\* the row of the call where there is one, else the row of the file
InsertOrUpdate ==
    wpc = "written" =>
        /\ fs["out.csv"] # Nothing /\ LoadRunRows(fs["out.csv"]) # Nothing
        /\ IdsOf(fs["out.csv"]) = IdsOf(job[1].old) \cup CallIds
        /\ Len(fs["out.csv"][1]) = 1 + Cardinality(IdsOf(fs["out.csv"]))
        /\ \A id \in CallIds : WrittenRow(id) = LastCallRow(id)
        /\ \A id \in IdsOf(job[1].old) \ CallIds :
              WrittenRow(id) \in Range(LoadRunRows(job[1].old)[1])

\* no step takes an id out of the table
NoIdRemoved ==
    fs'["out.csv"] # fs["out.csv"] => IdsOf(fs["out.csv"]) \subseteq IdsOf(fs'["out.csv"])

\* C18: a successful merge-and-rewrite only inserts or updates: the rewritten
\* table holds every word id of the file as it was and every id of the
\* in-memory rows, one row per id, the in-memory row winning; no id is ever
\* removed from the table.
C18_MergeIsInsertOrUpdate == []InsertOrUpdate /\ [][NoIdRemoved]_vars

\* a table with rows 1 and 2 rewritten by a call with rows 2 and 3: three
\* rows, row 2 the one of the call
C18_Witness ==
    /\ wpc = "written"
    /\ IdsOf(job[1].old) = {1, 2}
    /\ CallIds = {2, 3}
    /\ IdsOf(fs["out.csv"]) = {1, 2, 3}
    /\ WrittenRow(1).rarity_level = 1
    /\ WrittenRow(2).rarity_level = 2

\* from the first write to the end of the call the target holds the whole
\* old table or the whole new one
OldOrNewTable ==
    wpc \in {"writing", "written", "dead"} =>
        /\ fs["out.csv"] \in {job[1].old, job[1].new}
        /\ wpc = "written" => fs["out.csv"] = job[1].new

\* the lines go to the temporary file, and the target changes in one step,
\* from the old table to the new one
TargetChangesByRename ==
    fs'["out.csv"] # fs["out.csv"] =>
        /\ fs["out.csv"] = job[1].old
        /\ fs'["out.csv"] = job[1].new
        /\ fs["out.csv.tmp"] = job[1].new
        /\ fs'["out.csv.tmp"] = Nothing

\* C19: write_table_atomic writes the complete new table to a sibling
\* temporary file and renames it over the target, so that at every point, a
\* failure or a stop during the write included, the target holds the
\* complete old table or the complete new one, never a partial table.
C19_TargetIsOldOrNew == []OldOrNewTable /\ [][TargetChangesByRename]_vars

\* a write stopped after the header and one of two rows: the temporary file
\* holds the part, the target the old table
C19_Witness ==
    /\ wpc = "dead"
    /\ job[1].old # Nothing
    /\ Len(job[1].new[1]) = 3
    /\ Len(fs["out.csv.tmp"][1]) = 2
    /\ fs["out.csv"] = job[1].old
    /\ job[1].old # job[1].new

(***************************************************************************)
(* Claims about the output lock (SpecLock)                                 *)
(***************************************************************************)
\* the runs inside the with block of run_step2
InBody(r) == runs[r].place \in {"locked", "running"}

\* one holder per lock, and the runs inside the block are the holders
OneHolderPerTable ==
    /\ \A t \in Tables : Cardinality(lock_holders[t]) <= 1
    /\ \A r \in Runs : InBody(r) <=> r \in lock_holders[runs[r].table]
    /\ \A r, s \in Runs : (InBody(r) /\ InBody(s) /\ runs[r].table = runs[s].table) => r = s

\* a refused run has written no status record, sent no request and not
\* touched the output table
RefusedDidNothing ==
    \A r \in Runs :
        runs[r].place = "refused" =>
            runs[r].status = <<>> /\ runs[r].requests = 0 /\ ~runs[r].touched

\* a run that asks for a lock another run holds is refused in that very step,
\* and the holders stay as they are
RefusedAtOnce ==
    \A r \in Runs :
        (runs[r].place = "new" /\ runs'[r] # runs[r]
            /\ \E s \in Runs \ {r} : s \in lock_holders[runs[r].table]) =>
            /\ runs'[r].place = "refused"
            /\ lock_holders' = lock_holders
            /\ \A s \in Runs \ {r} : runs'[s] = runs[s]

\* C20: at most one scoring run at a time holds the exclusive lock of an
\* output table; a second run on the same table fails at once with an error,
\* without waiting, before it writes its status record, sends a request or
\* touches the output table, and the lock of the holder is unaffected.
C20_OneScoringRunPerTable ==
    [](OneHolderPerTable /\ RefusedDidNothing) /\ [][RefusedAtOnce]_vars

\* run 1 holds the lock of its table and has sent a request; run 2, on the
\* same table, was refused
C20_Witness ==
    /\ runs[1].table = runs[2].table
    /\ runs[1].place = "running"
    /\ runs[1].requests = 1
    /\ lock_holders[runs[1].table] = {1}
    /\ runs[2].place = "refused"

(***************************************************************************)
(* Claims about the transition sets (SpecTransitions)                      *)
(***************************************************************************)
\* the source levels of a transition, read from its fields
Sources(t) ==
    {t.from_level} \cup (IF t.from_level_upper = Nothing THEN {} ELSE {t.from_level_upper[1]})

\* a well-formed transition: all levels in 1..5; a pair has upper = lower + 1
\* and its target is one of the two sources; a single has target = source or
\* target = source - 1 and is not 5:5
WellFormed(t) ==
    /\ t.from_level \in 1..5
    /\ t.to_level \in 1..5
    /\ IF t.from_level_upper # Nothing
       THEN /\ t.from_level_upper[1] \in 1..5
            /\ t.from_level_upper[1] = t.from_level + 1
            /\ t.to_level = t.from_level \/ t.to_level = t.from_level_upper[1]
       ELSE /\ t.to_level = t.from_level \/ t.to_level = t.from_level - 1
            /\ ~(t.from_level = 5 /\ t.to_level = 5)

SharesSource(ts) ==
    \E i, j \in DOMAIN ts : i # j /\ Sources(ts[i]) \cap Sources(ts[j]) # {}

\* C21: every transition set accepted by parse_transitions has pairwise
\* disjoint source levels and only well-formed transitions, and
\* validate_transition_set rejects every list in which two transitions share
\* a source level.
C21_AcceptedTransitionSets ==
    pure_out.done =>
        /\ (pure_call.kind = "parse" /\ ~pure_out.raised) =>
              /\ \A i \in DOMAIN pure_out.result : WellFormed(pure_out.result[i])
              /\ ~SharesSource(pure_out.result)
        /\ (pure_call.kind = "validate" /\ SharesSource(pure_call.transitions)) => pure_out.raised

\* "2-3:3,4:3" was parsed into a pair and a single transition
C21_Witness ==
    /\ pure_call.kind = "parse"
    /\ pure_call.raw = <<"2", "-", "3", ":", "3", ",", "4", ":", "3">>
    /\ pure_out.done
    /\ ~pure_out.raised
    /\ pure_out.result = <<LevelTransition(2, 3, Some(3)), LevelTransition(4, 3, Nothing)>>

\* "2:1,2:2" was rejected by parse_transitions, and the list of the same two
\* transitions by validate_transition_set
OverlapRejected ==
    /\ pure_out.done
    /\ pure_out.raised
    /\ \/ pure_call.kind = "parse" /\ pure_call.raw = <<"2", ":", "1", ",", "2", ":", "2">>
       \/ /\ pure_call.kind = "validate"
          /\ pure_call.transitions = <<LevelTransition(2, 1, Nothing), LevelTransition(2, 2, Nothing)>>

(***************************************************************************)
(* Claims about JSON repair (SpecRepair)                                   *)
(***************************************************************************)
\* C22: JSON repair is idempotent: for every input text x,
\* repair(repair(x)) = repair(x).
C22_RepairIsIdempotent ==
    (pure_call.kind = "repair" /\ pure_out.done /\ pure_out.again) =>
        pure_out.twice = pure_out.once

\* a text cut inside a string after a backslash: the quote that repair appends
\* is escaped by the backslash, so repairing once more appends another
RepairedAgainAfterBackslash ==
    /\ pure_call.kind = "repair"
    /\ pure_call.raw = <<"\"", "\\">>
    /\ pure_out.done /\ pure_out.again
    /\ pure_out.once = <<"\"", "\\", "\"">>
    /\ pure_out.twice = <<"\"", "\\", "\"", "\"">>

\* "[1,]" is repaired to "[1]", and repairing once more leaves it
RepairedOnceAndForAll ==
    /\ pure_call.kind = "repair"
    /\ pure_call.raw = <<"[", "1", ",">>
    /\ pure_out.done /\ pure_out.again
    /\ pure_out.once = <<"[", "1", "]">>
    /\ pure_out.twice = <<"[", "1", "]">>

(***************************************************************************)
(* Claims about the fuzzy matcher (SpecMatcher)                            *)
(***************************************************************************)
\* the letter a character stands for once the diacritic is folded and the
\* case lowered, written out for the characters of the words
FoldedLower(c) == IF c \in {"a", "A_breve"} THEN "a" ELSE "s"

\* the words at edit distance at most k of each other: equal, or k > 0 and
\* one insertion, deletion or substitution away from distance k - 1
RECURSIVE Within(_, _, _)
Within(a, b, k) ==
    \/ a = b
    \/ /\ k > 0
       /\ \/ a # <<>> /\ Within(Tail(a), b, k - 1)
          \/ b # <<>> /\ Within(a, Tail(b), k - 1)
          \/ a # <<>> /\ b # <<>> /\ Within(Tail(a), Tail(b), k - 1)
    \/ a # <<>> /\ b # <<>> /\ Head(a) = Head(b) /\ Within(Tail(a), Tail(b), k)

FoldedCall(word) == [i \in DOMAIN word |-> FoldedLower(word[i])]

\* C23: matches(a, b) is true exactly when the diacritic-folded, lower-cased
\* forms of a and b are within Levenshtein distance 2 (distance 2 matches,
\* distance 3 does not), and the result is symmetric in its two arguments.
C23_MatchesWithinDistanceTwo ==
    (pure_call.kind = "matches" /\ pure_out.done) =>
        /\ pure_out.result <=>
              Within(FoldedCall(pure_call.expected), FoldedCall(pure_call.actual), 2)
        /\ pure_out.swapped => pure_out.swapped_result = pure_out.result

\* "sA" (A with breve) matches "as": the folded forms "sa" and "as" are two
\* substitutions apart, and the swapped call agrees
C23_Witness ==
    /\ pure_call.kind = "matches"
    /\ pure_call.expected = <<"s", "A_breve">>
    /\ pure_call.actual = <<"a", "s">>
    /\ pure_out.done /\ pure_out.swapped
    /\ pure_out.result
    /\ pure_out.swapped_result

\* "aaa" does not match "sss": three substitutions
DistanceThreeRefused ==
    /\ pure_call.kind = "matches"
    /\ pure_call.expected = <<"a", "a", "a">>
    /\ pure_call.actual = <<"s", "s", "s">>
    /\ pure_out.done
    /\ ~pure_out.result

(***************************************************************************)
(* Claims about load_run_rows (SpecLoad)                                   *)
(***************************************************************************)
\* the place of the last row with the id in the file
LastPlaceOf(word_id) ==
    CHOOSE k \in DOMAIN pure_call.appended :
        /\ pure_call.appended[k].word_id = word_id
        /\ \A j \in DOMAIN pure_call.appended : pure_call.appended[j].word_id = word_id => j <= k

\* C24: load_run_rows returns at most one row per word id, for an id with
\* several rows in the table the last one in file order, and the result is
\* sorted by ascending word id.
C24_LoadKeepsLastRowPerId ==
    (pure_call.kind = "load_run_rows" /\ pure_out.done /\ ~pure_out.raised) =>
        /\ \A i, j \in DOMAIN pure_out.rows :
              i < j => pure_out.rows[i].word_id < pure_out.rows[j].word_id
        /\ {pure_out.rows[i].word_id : i \in DOMAIN pure_out.rows}
              = {pure_call.appended[k].word_id : k \in DOMAIN pure_call.appended}
        /\ \A i \in DOMAIN pure_out.rows :
              pure_out.rows[i] = pure_call.appended[LastPlaceOf(pure_out.rows[i].word_id)]

\* word 2 at level 1, word 1, then word 2 again at level 2: word 1 and the
\* second row of word 2 are returned, in that order
C24_Witness ==
    /\ pure_call.kind = "load_run_rows"
    /\ pure_call.appended = <<RunCsvRow(2, 1), RunCsvRow(1, 1), RunCsvRow(2, 2)>>
    /\ pure_out.done
    /\ ~pure_out.raised
    /\ pure_out.rows = <<RunCsvRow(1, 1), RunCsvRow(2, 2)>>

(***************************************************************************)
(* Claims about the retry input (SpecRetry)                                *)
(***************************************************************************)
\* line i of the log is a record that names the id, as a number or as the
\* text of a number
RecordNames(i, n) ==
    /\ i \in DOMAIN pure_call.log[1]
    /\ pure_call.log[1][i].line = "object"
    /\ \/ pure_call.log[1][i].word_id.t = "int" /\ pure_call.log[1][i].word_id.v = n
       \/ /\ pure_call.log[1][i].word_id.t = "str"
          /\ pure_call.log[1][i].word_id.v = IntToChars(n)

\* the ids that at least one record of the log names
NamedInLog == {n \in 0..9 : \E i \in DOMAIN pure_call.log[1] : RecordNames(i, n)}

\* the record of the base table carries a named id
RowIsNamed(record) == \E n \in NamedInLog : record.word_id = IntToChars(n)

\* C25: the retry input table holds exactly the base-table rows whose word id
\* appears in at least one parseable log record, each once and in base-table
\* order; duplicate records and records with an unparseable id are ignored;
\* the returned count is the number of rows written.
C25_RetryInputIsTheFailedRows ==
    (pure_call.kind = "build_retry_input" /\ pure_out.done /\ pure_out.built.raised = "none") =>
        /\ pure_out.built.rows = SelectSeq(pure_call.base[1].records, RowIsNamed)
        /\ pure_out.built.headers = pure_call.base[1].headers
        /\ pure_out.built.count = Len(pure_out.built.rows)

\* the log names word 4, then a word "bad"; the base table holds words 2 and
\* 4: the row of word 4 is written and 1 returned
C25_Witness ==
    /\ pure_call.kind = "build_retry_input"
    /\ pure_call.log # Nothing
    /\ Len(pure_call.log[1]) = 2
    /\ RecordNames(1, 4)
    /\ pure_call.log[1][2].line = "object"
    /\ pure_call.log[1][2].word_id.t = "str"
    /\ pure_call.log[1][2].word_id.v = <<"b", "a", "d">>
    /\ pure_call.base = Some(BaseTable(<<"word_id", "word">>,
                                       <<[word_id |-> <<"2">>, word |-> "doi"],
                                         [word_id |-> <<"4">>, word |-> "patru"]>>))
    /\ pure_out.done
    /\ pure_out.built.raised = "none"
    /\ pure_out.built.rows = <<[word_id |-> <<"4">>, word |-> "patru"]>>
    /\ pure_out.built.count = 1

\* word 2 is named by two records; both rows with id 2 are written once
\* each, in the order of the base table
DuplicateRecordsIgnored ==
    /\ pure_call.kind = "build_retry_input"
    /\ pure_call.log # Nothing
    /\ Len(pure_call.log[1]) = 2
    /\ RecordNames(1, 2)
    /\ RecordNames(2, 2)
    /\ pure_out.done
    /\ pure_out.built.raised = "none"
    /\ pure_out.built.rows = <<[word_id |-> <<"2">>, word |-> "doi_bis"],
                               [word_id |-> <<"2">>, word |-> "doi"]>>

(***************************************************************************)
(* Termination of score_batch_resilient (Spec)                             *)
(***************************************************************************)
\* a step of a running call that changes the stack replaces the node on top
\* by at most two nodes, each one level deeper and with fewer rows, or ends
\* the call with a raise
RecursesOneDeeper ==
    (pc \in {"enter", "loop"} /\ stack # <<>> /\ stack' # stack /\ pc' # "raised") =>
        \E k \in 0..2 :
            /\ Len(stack') = Len(stack) - 1 + k
            /\ SubSeq(stack', k + 1, Len(stack')) = Tail(stack)
            /\ \A i \in 1..k :
                  /\ stack'[i].depth = Head(stack).depth + 1
                  /\ stack'[i].depth <= MAX_RECURSION_DEPTH
                  /\ Len(stack'[i].batch) < Len(Head(stack).batch)

\* the steps one node can take by itself: its entry, the requests of its
\* retry loop and those of the repair
StepsPerNode == 1 + ctx.max_retries + SELECTION_REPAIR_MAX_RETRIES

\* the steps a node of n rows and all the nodes under it can take: a node of
\* n rows has at most 2n - 1 nodes in its tree
TreeBudget(n) == StepsPerNode * (2 * n - 1)

RECURSIVE WaitingBudget(_)
WaitingBudget(frames) ==
    IF frames = <<>> THEN 0
    ELSE TreeBudget(Len(Head(frames).batch)) + WaitingBudget(Tail(frames))

\* the steps the running call can still take: those of the nodes that wait,
\* and for the node in its retry loop the requests left in the loop, those of
\* the repair that may follow, and the nodes under it
StepsLeft ==
    IF pc \notin {"enter", "loop"} THEN 0
    ELSE IF stack = <<>> THEN 1
    ELSE IF pc = "enter" THEN 1 + WaitingBudget(stack)
    ELSE 1 + WaitingBudget(Tail(stack))
           + (IF loop.repair THEN SELECTION_REPAIR_MAX_RETRIES - loop.attempt
              ELSE ctx.max_retries - loop.attempt + SELECTION_REPAIR_MAX_RETRIES)
           + StepsPerNode * (2 * Len(Head(stack).batch) - 2)

\* a node in its retry loop has a request left to send
LoopHasRequestLeft ==
    pc = "loop" =>
        /\ stack # <<>>
        /\ loop.attempt < (IF loop.repair THEN SELECTION_REPAIR_MAX_RETRIES ELSE ctx.max_retries)

EveryStepUsesBudget == pc \in {"enter", "loop"} => StepsLeft' < StepsLeft

\* C26: score_batch_resilient always terminates: whatever the endpoint
\* answers, every step of a running call (an entry of a node, a request with
\* its answer or failure) lowers a count that never goes below zero, so the
\* call returns or raises after finitely many requests; every recursive call
\* is one level deeper and the depth is capped.
C26_CallTerminates ==
    /\ [](StepsLeft \in Nat /\ LoopHasRequestLeft)
    /\ [][EveryStepUsesBudget]_vars
    /\ [][RecursesOneDeeper]_vars

\* a call on three words with two retries, every request of which failed,
\* returned after bisecting down to depth 2 with the three words logged
C26_Witness ==
    /\ pc = "returned"
    /\ Len(callBatch) = 3
    /\ ctx.max_retries = 2
    /\ maxRequestDepth = 2
    /\ Len(failedLog) = 3
    /\ callResults = <<>>

(***************************************************************************)
(* The retry loop and the run log (Spec)                                   *)
(***************************************************************************)
\* the requests the loop in progress may send
RequestLimit == IF loop.repair THEN SELECTION_REPAIR_MAX_RETRIES ELSE ctx.max_retries

\* one pass of the retry loop: it appends one line to the run log, numbered
\* with the request of the loop it is about; the loop goes on to its next
\* request only after a line that reports an error, below the limit
OneLinePerAttempt ==
    pc = "loop" =>
        LET line == runLog'[Len(runLog')]
        IN /\ Len(runLog') = Len(runLog) + 1
           /\ SubSeq(runLog', 1, Len(runLog)) = runLog
           /\ line.attempt = loop.attempt + 1
           /\ line.attempt <= RequestLimit
           /\ line.batch_size = Len(Head(stack).batch)
           /\ ~line.error => pc' = "enter"
           /\ (line.error /\ line.attempt < RequestLimit) =>
                  /\ pc' = "loop"
                  /\ stack' = stack
                  /\ loop'.repair = loop.repair
                  /\ loop'.attempt = line.attempt
           /\ (line.error /\ line.attempt = RequestLimit /\ pc' = "loop") =>
                  /\ ~loop.repair
                  /\ loop'.repair
                  /\ loop'.attempt = 0

\* C27: for one batch node the retry loop sends at most max_retries requests,
\* stops at the first attempt whose response parses without raising, even if
\* some rows are unresolved, and appends exactly one run-log record per
\* attempt, success or error, before the next attempt is sent.
C27_RetryLoopLogsEachAttempt ==
    /\ [][OneLinePerAttempt]_vars
    /\ [][pc = "enter" => runLog' = (IF pc' = "loop" THEN <<>> ELSE runLog)]_vars
    /\ [](pc = "loop" => loop.attempt < RequestLimit)

\* three words, two retries, no partial results: the first request failed,
\* the second parsed two of the three rows; the loop stopped there with two
\* lines in the run log and the third word became a node of its own
C27_Witness ==
    /\ pc = "enter"
    /\ ctx.max_retries = 2
    /\ ~ctx.allow_partial_results
    /\ Len(runLog) = 2
    /\ runLog[1] = [attempt |-> 1, batch_size |-> 3, error |-> TRUE,
                    request |-> <<101, 102, 103>>,
                    parsed_count |-> 0, unresolved_count |-> 0]
    /\ runLog[2] = [attempt |-> 2, batch_size |-> 3, error |-> FALSE,
                    request |-> <<101, 102, 103>>,
                    parsed_count |-> 2, unresolved_count |-> 1]
    /\ Len(callResults) = 2
    /\ Len(stack) = 1
    /\ Len(Head(stack).batch) = 1

(***************************************************************************)
(* What an attempt error does to the capability state (Spec)               *)
(***************************************************************************)
\* what the text of the exception says, by the kind of the failure
RequiresJsonSchema == exc'.kind = "http_schema_required"
RejectsResponseFormat ==
    exc'.kind \in {"http_unsupported_format", "http_schema_required", "http_unsupported_both"}
RejectsReasoning == exc'.kind \in {"http_reasoning_rejected", "http_unsupported_both"}
EmptyParse == exc'.kind = "no_valid_results_0"

\* the mode after the error, for a mode `before` it, given the mode the
\* request was built with
ModeAfterError(before) ==
    IF loop.response_format_mode = "json_object" /\ RequiresJsonSchema THEN "json_schema"
    ELSE IF \/ loop.response_format_mode # "none" /\ RejectsResponseFormat
            \/ loop.response_format_mode = "json_schema" /\ EmptyParse
    THEN "none"
    ELSE before

\* an attempt that raised
AttemptRaised == pc = "loop" /\ exc' # NoError

\* the same loop goes on to its next attempt
LoopGoesOn == pc' = "loop" /\ loop'.repair = loop.repair /\ loop'.attempt = loop.attempt + 1

FormatFollowsError ==
    AttemptRaised =>
        /\ capability_state'.response_format_mode
              = ModeAfterError(capability_state.response_format_mode)
        /\ LoopGoesOn =>
              loop'.response_format_mode = ModeAfterError(loop.response_format_mode)

\* the state starts at json-object with reasoning supported
StartsWide == pc = "idle" => capability_state = Capability("json_object", TRUE)

\* C28 as stated: an error rejecting reasoning parameters clears reasoning
\* support, whatever the request carried.
C28_AsStated ==
    /\ []StartsWide
    /\ [][FormatFollowsError]_vars
    /\ [][AttemptRaised =>
            /\ capability_state'.reasoning_controls_supported
                  = (capability_state.reasoning_controls_supported /\ ~RejectsReasoning)
            /\ LoopGoesOn =>
                  loop'.include_reasoning_controls
                      = (loop.include_reasoning_controls /\ ~RejectsReasoning)]_vars

\* C28: capability state starts at {json-object, reasoning supported}. An
\* error whose text requires json_schema, seen in json-object mode, switches
\* the mode to json-schema, before it counts as unsupported-format; an
\* unsupported response_format error in a mode other than none, or an
\* empty-parse error in json-schema mode, sets the mode to none; an error
\* rejecting reasoning parameters, seen while the request carried reasoning
\* controls, clears reasoning support; any other error leaves the state
\* unchanged, and the next attempt of the same loop uses the adapted state.
C28_CapabilityFollowsError ==
    /\ []StartsWide
    /\ [][FormatFollowsError]_vars
    /\ [][AttemptRaised =>
            /\ capability_state'.reasoning_controls_supported
                  = (/\ capability_state.reasoning_controls_supported
                     /\ ~(loop.include_reasoning_controls /\ RejectsReasoning))
            /\ LoopGoesOn =>
                  loop'.include_reasoning_controls
                      = (loop.include_reasoning_controls /\ ~RejectsReasoning)]_vars

\* the first attempt of a loop was told that response_format must be
\* json_schema: the state and the second attempt are in json-schema mode
C28_Witness ==
    /\ pc = "loop" /\ loop.attempt = 1 /\ ~loop.repair
    /\ exc.kind = "http_schema_required"
    /\ capability_state = Capability("json_schema", TRUE)
    /\ loop.response_format_mode = "json_schema"
    /\ loop.include_reasoning_controls

\* a request of the LM Studio REST flavor, which carries no reasoning
\* controls, met an error that rejects them: reasoning support is kept
ReasoningKeptWhenUnasked ==
    /\ ctx.flavor = "lmstudio_rest"
    /\ exc.kind = "http_reasoning_rejected"
    /\ capability_state.reasoning_controls_supported

\* an error naming both the response format and the reasoning controls
\* turned both off at once
BothGivenUp ==
    /\ pc = "loop" /\ loop.attempt = 1
    /\ exc.kind = "http_unsupported_both"
    /\ capability_state = Capability("none", FALSE)
    /\ loop.response_format_mode = "none" /\ ~loop.include_reasoning_controls

(***************************************************************************)
(* The selection repair before a split (Spec)                              *)
(***************************************************************************)
\* the retry loop of a node of a selection call ends with no results on a
\* selection count mismatch
EndsOnCountMismatch ==
    /\ pc = "loop" /\ ~loop.repair
    /\ ctx.output_mode = "selected_word_ids"
    /\ loop.attempt + 1 = ctx.max_retries
    /\ exc'.kind = "selection_count_mismatch"

\* the repair loop starts for the node on top, which is as it was
RepairBegins ==
    /\ pc' = "loop" /\ loop'.repair /\ loop'.attempt = 0
    /\ stack' = stack /\ callResults' = callResults /\ failedLog' = failedLog

\* the repair is asked for exactly then
RepairAfterMismatchOnly ==
    /\ EndsOnCountMismatch => RepairBegins
    /\ (~loop.repair /\ pc' = "loop" /\ loop'.repair) => EndsOnCountMismatch

\* the node on top is bisected, with nothing returned or logged
Bisected ==
    /\ Len(stack') = Len(stack) + 1
    /\ stack'[1].batch \o stack'[2].batch = Head(stack).batch
    /\ Len(stack'[1].batch) = Len(Head(stack).batch) \div 2
    /\ SubSeq(stack', 3, Len(stack')) = Tail(stack)
    /\ callResults' = callResults /\ failedLog' = failedLog

\* the node on top is a single word, dropped with a line in the failed log
SingletonDropped ==
    /\ Len(Head(stack).batch) = 1
    /\ stack' = Tail(stack)
    /\ callResults' = callResults
    /\ Len(failedLog') = Len(failedLog) + 1

\* the one request of the repair: a full answer ends the node, anything else
\* sends it to the split
RepairIsOneRequest ==
    (pc = "loop" /\ loop.repair) =>
        /\ loop.attempt = 0
        /\ pc' = "enter"
        /\ Len(runLog') = Len(runLog) + 1
        /\ runLog'[Len(runLog')].attempt = 1
        /\ IF exc' = NoError
           THEN /\ stack' = Tail(stack)
                /\ SubSeq(callResults', 1, Len(callResults)) = callResults
                /\ Len(callResults') = Len(callResults) + Head(stack).expected[1]
                /\ runLog'[Len(runLog')].unresolved_count = 0
                /\ failedLog' = failedLog
           ELSE Bisected \/ SingletonDropped

\* C29: in selection mode, when the retry loop of a node yields no results and
\* its last error is a selection count mismatch, exactly one repair request is
\* made, for the same node and expected count, before any drop or bisection;
\* its results are returned without a bisection only if it gave exactly the
\* expected number of results with nothing unresolved, otherwise the node goes
\* on to the drop or the bisection.  No repair request is made in
\* full-classification mode or after another last error.
C29_OneRepairBeforeSplit ==
    /\ [][RepairAfterMismatchOnly]_vars
    /\ [][RepairIsOneRequest]_vars
    /\ [](pc = "loop" /\ loop.repair =>
             /\ ctx.output_mode = "selected_word_ids"
             /\ Head(stack).expected[1] \in 1..(Len(Head(stack).batch) - 1))

\* one of three words was wanted, the one request of the loop named two, and
\* the repair request named one: it is returned and nothing was split
C29_Witness ==
    /\ pc = "enter" /\ stack = <<>>
    /\ ctx.output_mode = "selected_word_ids"
    /\ ctx.expected_json_items = Some(1)
    /\ ctx.max_retries = 1
    /\ Len(callBatch) = 3
    /\ Len(runLog) = 2
    /\ runLog[1].error /\ runLog[1].attempt = 1
    /\ ~runLog[2].error /\ runLog[2].attempt = 1 /\ runLog[2].parsed_count = 1
    /\ Len(callResults) = 1
    /\ failedLog = <<>>
    /\ maxRequestDepth = 0

\* the repair request failed as well: the three words were bisected
RepairFailedThenBisected ==
    /\ pc = "enter"
    /\ ctx.output_mode = "selected_word_ids"
    /\ ctx.max_retries = 1
    /\ Len(runLog) = 2
    /\ runLog[1].error /\ runLog[2].error /\ runLog[2].attempt = 1
    /\ Len(stack) = 2
    /\ stack[1].depth = 1 /\ Len(stack[1].batch) = 1
    /\ stack[2].depth = 1 /\ Len(stack[2].batch) = 2
    /\ callResults = <<>>

(***************************************************************************)
(* Claims about the bisection of a selection node (SpecSplit)              *)
(***************************************************************************)
\* k is e * size / n rounded to the nearest integer, a tie to the even one
NearestShare(k, e, size, n) ==
    /\ 2 * Abs(k * n - e * size) <= n
    /\ 2 * Abs(k * n - e * size) = n => k % 2 = 0

\* C30: a selection node of n words with required count e, 0 < e < n, is
\* bisected at index n div 2; the left half is given round(e * left_size / n),
\* the right half the remainder e - left; the two counts sum to e and each is
\* between 0 and the size of its half.
C30_SplitSharesTheCount ==
    (pure_call.kind = "split" /\ pure_out.done) =>
        LET n == pure_call.n
            e == pure_call.e
            left_size == Len(pure_out.left.batch)
            right_size == Len(pure_out.right.batch)
            left == pure_out.left.expected[1]
            right == pure_out.right.expected[1]
        IN /\ pure_out.rest = 0
           /\ left_size = n \div 2
           /\ pure_out.left.batch \o pure_out.right.batch = ClientBatch(n)
           /\ NearestShare(left, e, left_size, n)
           /\ right = e - left
           /\ left + right = e
           /\ left \in 0..left_size
           /\ right \in 0..right_size

\* five words of which three are wanted: the two words on the left are to
\* give one, the three on the right two
C30_Witness ==
    /\ pure_call = [kind |-> "split", n |-> 5, e |-> 3]
    /\ pure_out.done
    /\ Len(pure_out.left.batch) = 2 /\ pure_out.left.expected = Some(1)
    /\ Len(pure_out.right.batch) = 3 /\ pure_out.right.expected = Some(2)

\* four words of which one is wanted: the share of the left half is a tie,
\* rounded to zero, and the right half is to give the one
SplitTieGoesRight ==
    /\ pure_call = [kind |-> "split", n |-> 4, e |-> 1]
    /\ pure_out.done
    /\ pure_out.left.expected = Some(0)
    /\ pure_out.right.expected = Some(1)

(***************************************************************************)
(* The order of the requests (SpecPending)                                 *)
(***************************************************************************)
\* every row of the first batch comes before every row of the second in the
\* list of the pending rows (the ids of the list ascend)
Before(first, second) ==
    \A i \in DOMAIN first : \A j \in DOMAIN second : first[i].word_id < second[j].word_id

\* the nodes that wait lie in the order of the list, the node on top first,
\* and the rows not yet submitted come after the batch of the call
WaitingInListOrder ==
    /\ \A i, j \in DOMAIN stack : i < j => Before(stack[i].batch, stack[j].batch)
    /\ \A i \in DOMAIN stack : Before(stack[i].batch, remainingRows)
    /\ Before(callBatch, remainingRows)

\* a request is in flight only inside a step of the retry loop: it is the
\* request for the node on top, which lies before every node that waits and
\* every row not yet submitted, and the nodes that wait stay as they are
\* until it is answered
RequestIsForTopNode ==
    pc = "loop" =>
        /\ runLog'[Len(runLog')].request = RequestOf(Head(stack).batch)
        /\ \A i \in 2..Len(stack) : Before(Head(stack).batch, stack[i].batch)
        /\ pc' # "raised" =>
              /\ Len(stack') >= Len(stack) - 1
              /\ SubSeq(stack', Len(stack') - Len(stack) + 2, Len(stack')) = Tail(stack)

\* a bisection puts the left half on top of the right half
LeftHalfOnTop ==
    (pc \in {"enter", "loop"} /\ Len(stack') = Len(stack) + 1) =>
        /\ stack'[1].batch \o stack'[2].batch = Head(stack).batch
        /\ Len(stack'[1].batch) = Len(Head(stack).batch) \div 2
        /\ callResults' = callResults

\* the results a step adds are results for rows of the node on top, added at
\* the end
ResultsOfTopNodeAtEnd ==
    (pc \in {"enter", "loop"} /\ callResults' # callResults) =>
        /\ SubSeq(callResults', 1, Len(callResults)) = callResults
        /\ \A k \in (Len(callResults) + 1)..Len(callResults') :
              \E i \in DOMAIN Head(stack).batch :
                  callResults'[k].word_id = Head(stack).batch[i].word_id

\* the next batch is the head of the list of the rows not yet submitted, and
\* it is submitted only when the call before it has returned
BatchesInListOrder ==
    (callBatch' # callBatch) =>
        /\ pc \in {"idle", "returned"} /\ stack = <<>>
        /\ callBatch' \o remainingRows' = remainingRows
        /\ callBatch' # <<>>

\* C31: requests are strictly sequential: at most one request is in flight at
\* any time; the top-level batches are submitted in list order; when a batch
\* is bisected, every request for the left half completes before the first
\* request for the right half is sent, and the results are those of the left
\* half followed by those of the right half.
C31_RequestsAreSequential ==
    /\ []WaitingInListOrder
    /\ [][RequestIsForTopNode /\ LeftHalfOnTop /\ ResultsOfTopNodeAtEnd]_vars
    /\ [][BatchesInListOrder]_vars

\* the second batch of the run, rows 2 to 4, was bisected; its left half,
\* row 2, was scored, and the first request for
\* the right half is about to be sent
C31_Witness ==
    /\ pc = "loop" /\ loop.attempt = 0
    /\ RequestOf(callBatch) = <<102, 103, 104>>
    /\ remainingRows = <<>>
    /\ Len(stack) = 1
    /\ Head(stack).depth = 1
    /\ RequestOf(Head(stack).batch) = <<103, 104>>
    /\ RequestOf(callResults) = <<102>>
    /\ ctx.max_retries = 2

(***************************************************************************)
(* What record_outcome does (SpecAdapter)                                  *)
(***************************************************************************)
\* the boolean of the call just made
GivenOutcome == success_ratio' >= 90

\* the window after the call: the old one with the boolean at its end, cut to
\* its most recent window_size entries
WindowAfter ==
    LET appended == Append(outcomes, GivenOutcome)
        kept == Min2(Len(appended), window_size)
    IN [i \in 1..kept |-> appended[Len(appended) - kept + i]]

\* the size that the success rate of a window asks for
SizeFor(w) ==
    LET successes == Cardinality({i \in DOMAIN w : w[i]})
    IN IF 2 * successes < Len(w)
       THEN Max2(min_size, (current_size * 2) \div 3)
       ELSE IF 10 * successes > 9 * Len(w)
       THEN Min2(initial_size, (current_size * 3) \div 2)
       ELSE current_size

\* C32: record_outcome appends the boolean (success ratio >= 0.9) to the
\* window, trims the window to the most recent window_size outcomes, and then
\* updates the size from the success rate of the window: rate < 0.5 gives
\* max(min_size, floor(size * 2 / 3)), rate > 0.9 gives
\* min(initial_size, floor(size * 3 / 2)), otherwise the size is unchanged.
\* The window never holds more than window_size outcomes.
C32_RecordOutcomeStep ==
    /\ [][/\ outcomes' = WindowAfter
          /\ current_size' = SizeFor(outcomes')
          /\ <<initial_size, min_size, window_size>>' = <<initial_size, min_size, window_size>>]_vars
    /\ [](Len(outcomes) <= window_size)

\* a window of two, full of failures, took a third failure with ratio 0.49:
\* the oldest outcome was dropped and the size went down from 5 over 3 and 2
\* to 1
C32_Witness ==
    /\ window_size = 2 /\ initial_size = 5 /\ min_size = 1
    /\ Len(trail) = 3
    /\ outcomes = <<FALSE, FALSE>>
    /\ success_ratio = 49
    /\ trail[2].size = 3
    /\ current_size = 1

\* a window of three with one failure in it: the rate is two thirds and the
\* size stays where it is
SizeKeptAtMiddleRate ==
    /\ window_size = 3
    /\ outcomes = <<TRUE, FALSE, TRUE>>
    /\ trail # <<>>
    /\ trail[Len(trail)].size = current_size
    /\ current_size < initial_size

(***************************************************************************)
(* The quotas of a batch drawn from two source levels (SpecRebalance)      *)
(***************************************************************************)
\* the two source levels of the transition under way
PairLevels == SourceLevels(options.transitions[transition_index])

\* a pass of the loop of _apply_transition over a pair transition that drew a
\* batch
PairBatchDrawn ==
    /\ rpc = "loop"
    /\ Len(PairLevels) = 2
    /\ Len(drawn') = Len(drawn) + 1

\* the stock of a level when the batch is selected, and what the batch took
StockAt(level) == Len(remaining_by_source[level])

QuotaTaken(level) == Len(remaining_by_source[level]) - Len(remaining_by_source'[level])

\* min(max_batch_size, total_remaining)
PairBatchSize == Min2(options.batch_size, StockAt(PairLevels[1]) + StockAt(PairLevels[2]))

\* batch_size times the share of a level in the original pool, as the
\* numerator over the size of the original pool
ShareTimes(level) == PairBatchSize * initial_source_counts[level]

OriginalPool == initial_source_counts[PairLevels[1]] + initial_source_counts[PairLevels[2]]

\* The largest-remainder roundings of the two shares: each level gets the
\* floor of its share or one more, the two add up to the batch size, and the
\* word the floors leave over goes to a level whose remainder is not the
\* smaller one.
LargestRemainderPairs ==
    LET a == PairLevels[1]
        b == PairLevels[2]
        floor(level) == ShareTimes(level) \div OriginalPool
        rest(level) == ShareTimes(level) % OriginalPool
    IN {p \in (0..PairBatchSize) \X (0..PairBatchSize) :
           /\ p[1] \in {floor(a), floor(a) + 1}
           /\ p[2] \in {floor(b), floor(b) + 1}
           /\ p[1] + p[2] = PairBatchSize
           /\ p[1] = floor(a) + 1 => rest(a) >= rest(b)
           /\ p[2] = floor(b) + 1 => rest(b) >= rest(a)}

\* a rounding cut to the stock of its level, the other level making up for
\* what was cut
CutAndBackfilled(p) ==
    LET a == PairLevels[1]
        b == PairLevels[2]
    IN IF p[1] > StockAt(a) THEN <<StockAt(a), p[2] + (p[1] - StockAt(a))>>
       ELSE IF p[2] > StockAt(b) THEN <<p[1] + (p[2] - StockAt(b)), StockAt(b)>>
       ELSE p

QuotasOfPairBatch ==
    PairBatchDrawn =>
        LET a == PairLevels[1]
            b == PairLevels[2]
        IN /\ \E p \in LargestRemainderPairs :
                 <<QuotaTaken(a), QuotaTaken(b)>> = CutAndBackfilled(p)
           /\ QuotaTaken(a) + QuotaTaken(b) = PairBatchSize
           /\ QuotaTaken(a) <= StockAt(a)
           /\ QuotaTaken(b) <= StockAt(b)
           /\ Len(drawn'[Len(drawn')].batch) = PairBatchSize

\* C33: in a transition with two source levels the quotas of every batch are
\* a largest-remainder rounding of batch_size times each level's share of the
\* original pool, cut to the stock left at the level and made up from the
\* other level; they add up to the batch size and none is above the stock of
\* its level.
C33_PairQuotas == [][QuotasOfPairBatch]_vars

\* One word at level 2 and three at level 3, batches of two from the pair:
\* the first batch took one word of each level, the second was planned as one
\* of each again, found level 2 empty and took both words from level 3.
C33_Witness ==
    /\ rpc = "loop"
    /\ Len(options.transitions[transition_index].from_level_upper) = 1
    /\ options.batch_size = 2
    /\ initial_source_counts[2] = 1
    /\ initial_source_counts[3] = 3
    /\ Len(drawn) = 2
    /\ {dataset[w] : w \in Range(drawn[1].batch)} = {2, 3}
    /\ {dataset[w] : w \in Range(drawn[2].batch)} = {3}
    /\ Len(drawn[2].batch) = 2

(***************************************************************************)
(* The target count of a batch and the running total (SpecRebalance)       *)
(***************************************************************************)
\* a pass of the loop of _apply_transition that drew a batch
BatchDrawn == rpc = "loop" /\ Len(drawn') = Len(drawn) + 1

DrawnBatchSize == Len(drawn'[Len(drawn')].batch)

\* target_count of the pass: _compute_adaptive_target_count on the counters
\* the pass found
TargetCountOfBatch ==
    ComputeAdaptiveTargetCount(counters.processed, counters.target_assigned, DrawnBatchSize,
                               options.lower_ratio, counters.expected_target_total)

\* round(cumulative_processed * ratio) no higher than expected_target_total
RunningCeiling(c) ==
    Min2(c.expected_target_total, RoundRatio(c.processed, options.lower_ratio))

TargetCountWithinBatch ==
    BatchDrawn =>
        /\ TargetCountOfBatch \in 0..DrawnBatchSize
        /\ counters'.processed = counters.processed + DrawnBatchSize
        \* a pass that applied its batch assigned target_count words to the target
        /\ rpc' = "loop" =>
              counters'.target_assigned = counters.target_assigned + TargetCountOfBatch

AssignedWithinCeiling ==
    rpc \in {"loop", "raised"} =>
        /\ counters.expected_target_total =
              RoundRatio(counters.eligible_count, options.lower_ratio)
        /\ counters.target_assigned <= RunningCeiling(counters)
        /\ counters.target_assigned <= counters.expected_target_total
        /\ counters.target_assigned >= 0

\* C34: the target count computed for a batch lies between 0 and the size of
\* the batch, and after every batch the words assigned to the target level so
\* far are at most min(expected_target_total, round(processed * ratio)) and
\* never more than expected_target_total = round(eligible_count * ratio).
C34_TargetCountBounded == []AssignedWithinCeiling /\ [][TargetCountWithinBatch]_vars

\* Four eligible words, ratio 1/3, batches of two: the first batch gives one
\* word to the target (round(2/3) = 1), the second none, because the total
\* expected is round(4/3) = 1.
C34_Witness ==
    /\ rpc = "loop"
    /\ options.lower_ratio = <<1, 3>>
    /\ options.batch_size = 2
    /\ counters.eligible_count = 4
    /\ counters.expected_target_total = 1
    /\ counters.batch_index = 2
    /\ counters.processed = 4
    /\ counters.target_assigned = 1
    /\ Len(checkpoint) = 2

(***************************************************************************)
(* The replay of the checkpoint log and the runtime in memory (SpecResume) *)
(***************************************************************************)
\* what _restore_from_checkpoint makes of the input table and the log as
\* they are now
Replayed == RestoreFromCheckpoint(dataset, RebalanceRuntime(dataset), checkpoint).runtime

\* C35: the replay of the checkpoint log on the input table gives the runtime
\* that was in memory when the batch of the last record had been applied: the
\* same processed ids, the same level for every word, the same distribution
\* counter and the same applied rules.  (The runtime changes only in the pass
\* that also appends the record, so in every state it is the runtime the last
\* record left.)
C35_ReplayRebuildsRuntime ==
    rpc # "parked" =>
        LET replayed == Replayed
        IN /\ replayed.processed_word_ids = runtime.processed_word_ids
           /\ DOMAIN replayed.levels_by_id = DOMAIN runtime.levels_by_id
           /\ \A w \in DOMAIN dataset : replayed.levels_by_id[w] = runtime.levels_by_id[w]
           /\ \A lvl \in Levels : replayed.distribution[lvl] = runtime.distribution[lvl]
           /\ replayed.rebalance_rules = runtime.rebalance_rules

\* A run that was restarted twice, after its first and after its second
\* batch: the second restart replayed two records, of which at least one
\* switched a word and at least one word was processed without a switch.
C35_Witness ==
    /\ rpc = "run"
    /\ transition_index = 1
    /\ Len(checkpoint) = 2
    /\ resume_stats.resumed_batches = 2
    /\ resume_stats.resumed_processed_words >= 3
    /\ resume_stats.resumed_switched_words >= 1
    /\ \E w \in runtime.processed_word_ids :
          runtime.rebalance_rules[w] # Nothing /\ runtime.levels_by_id[w] # dataset[w]
    /\ \E w \in runtime.processed_word_ids :
          runtime.rebalance_rules[w] = Nothing /\ runtime.levels_by_id[w] = dataset[w]

(***************************************************************************)
(* Selection calls on long batches (SpecRefused)                           *)
(***************************************************************************)
\* a selection call on a batch no longer than the default rebalance batch,
\* asking for some but not all of its words, has returned
SelectionReturned ==
    /\ pc = "returned"
    /\ ctx.output_mode = "selected_word_ids"
    /\ Len(callBatch) <= DEFAULT_REBALANCE_BATCH_SIZE
    /\ ctx.expected_json_items[1] > 0
    /\ ctx.expected_json_items[1] < Len(callBatch)

\* C36 as stated: a selection call on a batch of up to 600 words with
\* 0 < e < len(batch) that does not raise returns exactly e results, for
\* pairwise distinct words of the batch, all at the forced level, whatever
\* the endpoint's failures other than connectivity.
C36_SelectionReturnsExactCount ==
    SelectionReturned =>
        /\ Len(callResults) = ctx.expected_json_items[1]
        /\ \A i, j \in DOMAIN callResults :
              callResults[i].word_id = callResults[j].word_id => i = j
        /\ \A i \in DOMAIN callResults :
              \E j \in DOMAIN callBatch :
                 callResults[i] = ScoreOf(callBatch[j], ctx.forced_rarity_level[1])

\* the call on 513 words asking for one came back with none, two words logged
\* as beyond the depth limit
SelectionCameBackShort ==
    /\ SelectionReturned
    /\ Len(callBatch) = HalvedToDepthLimit
    /\ ctx.expected_json_items[1] = 1
    /\ callResults = <<>>
    /\ Len(failedLog) = 2
    /\ \A i \in DOMAIN failedLog : failedLog[i].error = "max_recursion_depth_exceeded"

(***************************************************************************)
(* The outcome of a resumed transition (SpecResume)                        *)
(***************************************************************************)
\* a run of one transition has ended with its output written
OneTransitionDone ==
    /\ rpc = "written"
    /\ Len(options.transitions) = 1
    /\ options.batch_size >= 1

\* the words of the input table at the source levels of the transition, and
\* those of them now at its target level
EligibleInTable ==
    {w \in DOMAIN dataset : dataset[w] \in Range(SourceLevels(options.transitions[1]))}

EndedAtTarget ==
    {w \in EligibleInTable : runtime.levels_by_id[w] = options.transitions[1].to_level}

\* C37: a transition interrupted after a checkpointed batch and resumed ends
\* with as many words at the target level as the uninterrupted run over the
\* same input, ratio and batch size, which is round(eligible * ratio).
C37_ResumedEndsAsUninterrupted ==
    OneTransitionDone =>
        Cardinality(EndedAtTarget) = RoundRatio(Cardinality(EligibleInTable), options.lower_ratio)

\* Two words at level 2, the transition 2 -> 2 with ratio 1/2 in batches of
\* one, restarted after the first batch: both words end at level 3, none at
\* the target, where the uninterrupted run leaves one.
ResumedEndedShort ==
    /\ OneTransitionDone
    /\ options.batch_size = 1
    /\ resume_stats.resumed_batches = 1
    /\ Cardinality(EligibleInTable) = 2
    /\ EndedAtTarget = {}
    /\ Len(checkpoint) = 2

(***************************************************************************)
(* The distribution counter and the level map (SpecResume)                 *)
(***************************************************************************)
\* the words the level map now holds at a level
WordsNowAt(lvl) == {w \in DOMAIN runtime.levels_by_id : runtime.levels_by_id[w] = lvl}

\* C38: at every point of a rebalance run, after any batch assignments and
\* checkpoint replays, each of the five counts of the distribution is the
\* number of words now at that level, and the five counts add up to the
\* number of words of the input table.
C38_CounterIsHistogram ==
    rpc # "parked" =>
        /\ \A lvl \in Levels : runtime.distribution[lvl] = Cardinality(WordsNowAt(lvl))
        /\ runtime.distribution[1] + runtime.distribution[2] + runtime.distribution[3]
              + runtime.distribution[4] + runtime.distribution[5] = Cardinality(DOMAIN dataset)

\* A restarted run that replayed a record with a switched word and has then
\* applied a batch that switched another: the counts differ from those of
\* the input table.
C38_Witness ==
    /\ rpc = "loop"
    /\ resume_stats.resumed_switched_words >= 1
    /\ Len(drawn) = 1
    /\ Len(checkpoint) = 2
    /\ Len(checkpoint[2].switched) >= 1
    /\ \E lvl \in Levels :
          runtime.distribution[lvl] # Cardinality({w \in DOMAIN dataset : dataset[w] = lvl})

(***************************************************************************)
(* Recovery of the adapter (SpecAdapter)                                   *)
(***************************************************************************)
\* the window holds successes only
AllSuccesses(w) == \A i \in DOMAIN w : w[i]

\* A record_outcome with a ratio of at least 0.9 that leaves a window of
\* successes only.  From here on, as long as the ratios stay at 0.9 or more,
\* the window stays as it is and every step computes the size from the same
\* rate, so a step that leaves the size where it was is repeated for ever.
GoodOutcomeOnCleanWindow == GivenOutcome /\ AllSuccesses(outcomes')

GrowsUntilInitial ==
    (GoodOutcomeOnCleanWindow /\ current_size < initial_size) => current_size' > current_size

\* C39: the adapter always recovers: for every valid construction and from
\* every reachable state, outcomes with ratio >= 0.9 from then on bring the
\* size back to initial_size; it is never stuck at a size below initial_size.
\* Once the failures have left the window every such outcome must therefore
\* raise a size that is below initial_size.
C39_AlwaysRecovers == [][GrowsUntilInitial]_vars

\* An adapter built with initial_size 2, min_size 1 and a window of one that
\* fell to size 1 and has since met five outcomes with ratio >= 0.9, each on
\* a window of successes: the size is still 1.
StuckBelowInitial ==
    /\ initial_size = 2 /\ min_size = 1 /\ window_size = 1
    /\ current_size = 1
    /\ Len(trail) = TrailLen
    /\ \A i \in DOMAIN trail : trail[i].ok /\ trail[i].size = 1
    /\ \A i \in 2..Len(trail) : trail[i].allOk
    /\ AllSuccesses(outcomes)

(***************************************************************************)
(* Surplus local ids and the positional reading (SpecParser)               *)
(***************************************************************************)
\* the local id of the batch that the i-th result node gives, if it gives one
LocalIdAt(i) ==
    LET c == SelectionCandidateOf(pResults[i])
    IN IF c = Nothing THEN Nothing
       ELSE IF c[1].returned_id = Nothing THEN Nothing
       ELSE IF c[1].returned_id[1] \notin DOMAIN pBatch THEN Nothing
       ELSE c[1].returned_id

\* the places of the response where a local id of the batch comes first
FirstMentions ==
    {i \in DOMAIN pResults :
        LocalIdAt(i) # Nothing /\ \A j \in 1..(i - 1) : LocalIdAt(j) # LocalIdAt(i)}

\* the k-th distinct local id of the batch in response order
KthLocalId(k) ==
    LocalIdAt(CHOOSE i \in FirstMentions :
                 Cardinality({j \in FirstMentions : j <= i}) = k)[1]

\* the i-th result node gives no local id of the batch and echoes the word
\* of the row
EchoesRow(i, row) ==
    LET c == SelectionCandidateOf(pResults[i])
    IN /\ LocalIdAt(i) = Nothing
       /\ c # Nothing
       /\ c[1].word # Nothing
       /\ \/ Lower(row.word) = Lower(Strip(c[1].word[1]))
          \/ /\ NormalizeSelectionWord(Strip(c[1].word[1])) # <<>>
             /\ NormalizeSelectionWord(row.word)
                   = NormalizeSelectionWord(Strip(c[1].word[1]))

\* the rows the response names by a local id of the batch or by their word
NamedRows ==
    {pBatch[LocalIdAt(i)[1]].word_id : i \in {j \in DOMAIN pResults : LocalIdAt(j) # Nothing}}
        \cup {pBatch[r].word_id :
                 r \in {q \in DOMAIN pBatch : \E i \in DOMAIN pResults : EchoesRow(i, pBatch[q])}}

SurplusLocalIds ==
    /\ SelectionCall /\ pBatch # <<>>
    /\ pForced # Nothing /\ pForced[1] \in RarityLevels
    /\ pExpected # Nothing /\ pExpected[1] >= 1
    /\ Cardinality(FirstMentions) > pExpected[1]

\* C40: in selection mode a response that lists more distinct local ids of
\* the batch than expected is accepted, and the result is the rows of the
\* first `expected` of them in response order; and when the response names
\* any row by a local id or by its word, every returned row is one it names
\* so: the id stream is read by position only when nothing was named.
C40_SurplusIdsKeptInOrder ==
    /\ SurplusLocalIds =>
          /\ pOut.kind = "ok"
          /\ pOut.scores = [k \in 1..pExpected[1] |->
                               ScoreOf(pBatch[KthLocalId(k)], pForced[1])]
    /\ (SelectionCall /\ pBatch # <<>> /\ pOut.kind = "ok" /\ NamedRows # {}) =>
          \A k \in DOMAIN pOut.scores : pOut.scores[k].word_id \in NamedRows

\* [2, 1] with one expected on a batch of two: the second row is returned.
C40_Witness ==
    /\ SelectionCall /\ Len(pBatch) = 2 /\ pForced = Some(1) /\ pExpected = Some(1)
    /\ Len(pResults) = 2
    /\ pResults[1] = JInt(2) /\ pResults[2] = JInt(1)
    /\ pOut.kind = "ok"
    /\ pOut.scores = <<ScoreOf(pBatch[2], 1)>>
====
